---- MODULE Spec2Model ----
(***************************************************************************)
(* Directive-level model of PBRTParser (src/src/PBRTParser.cpp): the       *)
(* graphics-state interpreter, the block stacks, the object table, the     *)
(* material / texture tables and the scene being assembled.  One action    *)
(* is one directive handler, run to completion.  The input is an           *)
(* arbitrary sequence of directives, drawn one at a time.                  *)
(*                                                                         *)
(* The declared-resource tables of src/src/PBRTParser.h (texture_lookup,   *)
(* material_lookup over shared DeclaredTexture / DeclaredMaterial records) *)
(* are modelled by the second specification, SpecLookup.                   *)
(***************************************************************************)
EXTENDS Integers, Sequences, FiniteSets, TLC

\* ---- bounds ------------------------------------------------------------
MaxSteps == 5        \* directives in one input, any directive (Spec)
MaxLookupSteps == 7  \* directives in one input, the directives of SpecLookup
MaxFileLines == 2    \* lines of a file of the Include scenarios
MaxNumberLen == 4    \* characters of a text of number characters, before its last "\n"
MaxTextLen == 4      \* characters of a text of any characters, before its last "\n"
MaxObjSteps == 7     \* directives in one input, the directives of SpecObjects
MaxMatSteps == 5     \* directives in one input, the directives of SpecMaterials
MaxCamSteps == 5     \* directives in one input, the directives of SpecCamera
MaxTokens == 6       \* lexemes in one input read lexeme by lexeme
MaxParams == 2       \* directives and parameters in one input of SpecParams
MaxFloats == 17      \* numbers in a bracketed list
MaxDepth == 2        \* open blocks of one kind
MaxAlloc == 2        \* shapes / materials / textures created by directives
MaxPathLen == 4      \* characters of the path an Include names
MaxValueLen == 4     \* lexemes a parse_value call is made on
MaxXfSteps == 3      \* directives in one input, the transformations (SpecTransforms)
MaxFilmSteps == 4    \* directives in one input, Camera and Film (SpecFilm)
MaxVertices == 1     \* vertices a mesh file declares

\* ---- input alphabets ---------------------------------------------------
Names == {"a", "b"}
TranslateVecs == {<<1, 0, 0>>, <<0, 2, 0>>}
ScaleFactors == {2}
RotateArgs == {[angle |-> 90, axis |-> <<0, 0, 1>>]}
ShapeTypes == {"trianglemesh", "sphere"}
LookAtArgs ==
    {[eye |-> <<0, 0, 5>>, look |-> <<0, 0, 0>>, up |-> <<0, 1, 0>>],
     [eye |-> <<0, 0, 3>>, look |-> <<0, 0, 1>>, up |-> <<0, 1, 0>>]}

\* ---- matrices ----------------------------------------------------------
\* The transformations the model feeds the parser are translations, uniform
\* scalings and quarter turns about the z axis; a 4x4 matrix of that group is
\* x |-> s * R^r(x) + t, with R the quarter turn (x, y, z) |-> (-y, x, z).
identity_mat4f == [s |-> 1, r |-> 0, t |-> <<0, 0, 0>>]

translation_mat(v) == [s |-> 1, r |-> 0, t |-> v]

scaling_mat(k) == [s |-> k, r |-> 0, t |-> <<0, 0, 0>>]

\* ygl::rotation_frame(axis, angle) as a matrix, for the z axis and an angle
\* that is a multiple of 90 degrees
rotation_mat(axis, angle) == [s |-> 1, r |-> (angle \div 90) % 4, t |-> <<0, 0, 0>>]

\* v turned by r quarter turns about the z axis
Turned(v, r) ==
    CASE r = 0 -> v
      [] r = 1 -> <<0 - v[2], v[1], v[3]>>
      [] r = 2 -> <<0 - v[1], 0 - v[2], v[3]>>
      [] r = 3 -> <<v[2], 0 - v[1], v[3]>>

\* B * A : A is applied first
MatMulReversed(A, B) ==
    [s |-> A.s * B.s,
     r |-> (A.r + B.r) % 4,
     t |-> <<B.t[1] + B.s * Turned(A.t, B.r)[1], B.t[2] + B.s * Turned(A.t, B.r)[2],
             B.t[3] + B.s * Turned(A.t, B.r)[3]>>]

\* A * B : B is applied first
MatMul(A, B) ==
    [s |-> A.s * B.s,
     r |-> (A.r + B.r) % 4,
     t |-> <<A.t[1] + A.s * Turned(B.t, A.r)[1], A.t[2] + A.s * Turned(B.t, A.r)[2],
             A.t[3] + A.s * Turned(B.t, A.r)[3]>>]

\* ygl::mat_to_frame keeps the affine part; the frame origin is its translation
mat_to_frame(M) == M

origin(frame) == frame.t

\* ((float) x) / ((float) y) for positive integers, as a fraction in lowest terms
Ratio(x, y) ==
    LET g == CHOOSE k \in 1..x : /\ x % k = 0 /\ y % k = 0
                                 /\ \A j \in (k + 1)..x : x % j # 0 \/ y % j # 0
    IN  [n |-> x \div g, d |-> y \div g]

\* ---- the lexer (src/src/PBRTLexer.cpp) ------------------------------------
\* A text is a sequence of characters, a character a string of length one.
\* currentPos and lastPos count from 0 as in the code; text[currentPos + 1] is
\* the character under the head.
Digits == {"1", "2", "3"}
Alphas == {"a", "e", "E", "I", "n", "c", "l", "u", "d", "W", "o", "r", "B", "g", "i", "X"}
Blanks == {" ", "\t", "\r", "\n"}

isdigit(c) == c \in Digits

isalpha(c) == c \in Alphas

tolower(c) == IF c = "E" THEN "e" ELSE c

\* Lexeme() : no type yet, empty value
NoLexeme == [type |-> "none", value |-> <<>>]

\* PBRTLexer::PBRTLexer, on the text read_file returns; exc is the exception
\* that left the last call, "none" if it returned
PBRTLexerShortened(text) ==
    [text |-> text, currentPos |-> 0, lastPos |-> Len(text) - 3, line |-> 1, column |-> 0,
     inputEnded |-> (Len(text) = 0), currentLexeme |-> NoLexeme, exc |-> "none"]

PBRTLexer(text) ==
    [text |-> text, currentPos |-> 0, lastPos |-> Len(text) - 1, line |-> 1, column |-> 0,
     inputEnded |-> (Len(text) = 0), currentLexeme |-> NoLexeme, exc |-> "none"]

\* F at the value of x: the argument of a call is evaluated once, when the call
\* is made, as the C++ does
Evaluated(x, F(_)) == CHOOSE r \in {F(v) : v \in {x}} : TRUE

\* text[currentPos] ; past the end of the std::string it is the terminating '\0'
peek(L) == IF L.currentPos + 1 \in 1..Len(L.text) THEN L.text[L.currentPos + 1] ELSE "\\0"

\* "a trick to avoid to lose the last lexeme": the first advance at the last
\* character swaps the text for two blanks
EndTrick(L) == [L EXCEPT !.inputEnded = TRUE, !.currentPos = 0, !.text = <<" ", " ">>,
                         !.lastPos = 1]

\* PBRTLexer::advance ; a call that comes after an exception does not happen
advance(L) ==
    IF L.exc # "none" THEN L
    ELSE IF L.currentPos < L.lastPos
    THEN LET moved == [L EXCEPT !.currentPos = @ + 1, !.column = @ + 1]
         IN  IF peek(moved) = "\n"
             THEN [moved EXCEPT !.line = @ + 1, !.column = 1]
             ELSE [moved EXCEPT !.column = @ + 1]
    ELSE IF L.inputEnded
    THEN [L EXCEPT !.exc = "InputEnded"]
    ELSE EndTrick(L)

\* the loop of remove_blanks over a comment: up to the newline that ends it
RECURSIVE skip_comment(_)
skip_comment(L) ==
    IF L.exc # "none" \/ peek(L) = "\n" THEN L ELSE Evaluated(advance(L), skip_comment)

\* PBRTLexer::remove_blanks
RECURSIVE remove_blanks(_)
remove_blanks(L) ==
    IF L.exc # "none" THEN L
    ELSE IF peek(L) \in Blanks THEN Evaluated(advance(L), remove_blanks)
    ELSE IF peek(L) = "#" THEN Evaluated(advance(skip_comment(L)), remove_blanks)
    ELSE L

\* do { ss << c; advance(); } while (isalpha(c = peek()))
RECURSIVE identifier_loop(_, _)
identifier_loop(L, ss) ==
    LET next == advance(L)
        read == Append(ss, peek(L))
    IN  IF next.exc # "none" THEN next
        ELSE IF isalpha(peek(next))
        THEN Evaluated(next, LAMBDA moved : identifier_loop(moved, read))
        ELSE [next EXCEPT !.currentLexeme = [type |-> "IDENTIFIER", value |-> read]]

read_indentifier_from_second(L) ==
    IF ~isalpha(peek(L)) THEN [found |-> FALSE, lexer |-> L]
    ELSE [found |-> TRUE, lexer |-> identifier_loop(advance(L), <<>>)]

\* PBRTLexer::read_indentifier : found is the bool it returns
read_indentifier(L) ==
    IF ~isalpha(peek(L)) THEN [found |-> FALSE, lexer |-> L]
    ELSE [found |-> TRUE, lexer |-> identifier_loop(L, <<>>)]

\* while ((c = peek()) != '"') { ss << c; advance(); }  advance(); STRING
RECURSIVE string_loop(_, _)
string_loop(L, ss) ==
    IF L.exc # "none" THEN L
    ELSE IF peek(L) # "\""
    THEN Evaluated(advance(L), LAMBDA moved : string_loop(moved, Append(ss, peek(L))))
    ELSE LET next == advance(L)
         IN  IF next.exc # "none" THEN next
             ELSE [next EXCEPT !.currentLexeme = [type |-> "STRING", value |-> ss]]

\* PBRTLexer::read_string
read_string(L) ==
    IF peek(L) # "\"" THEN [found |-> FALSE, lexer |-> L]
    ELSE [found |-> TRUE, lexer |-> string_loop(advance(L), <<>>)]

NumberFinalStatesWithExponent == {2, 3, 4, 6}

\* "legal point of exit" : state == 2 || state == 3 || state == 6
NumberFinalStates == {2, 3, 6}

\* state = ... : the loop of read_number goes on
Go(state, point_seen) == [move |-> "go", state |-> state, point_seen |-> point_seen]

\* the chain of tests in the loop of read_number: go on with the next state and
\* point_seen, or "exit" (break), or "error" (throw)
NumberStep(state, c, point_seen) ==
    IF state = 0 /\ c \in {"-", "+", "."}
    THEN IF c = "." THEN Go(1, TRUE)
         ELSE Go(7, point_seen)
    ELSE IF state = 0 /\ isdigit(c) THEN Go(2, point_seen)
    ELSE IF state = 1 /\ isdigit(c)
    THEN Go(IF point_seen THEN 3 ELSE 2, point_seen)
    ELSE IF state = 2 /\ c = "." /\ ~point_seen THEN Go(3, TRUE)
    ELSE IF state = 2 /\ isdigit(c) THEN Go(2, point_seen)
    ELSE IF state = 2 /\ tolower(c) = "e" THEN Go(4, point_seen)
    ELSE IF state = 3 /\ isdigit(c) THEN Go(3, point_seen)
    ELSE IF state = 3 /\ tolower(c) = "e" THEN Go(4, point_seen)
    ELSE IF state = 4 /\ c \in {"-", "+"} THEN Go(5, point_seen)
    ELSE IF state = 4 /\ isdigit(c) THEN Go(6, point_seen)
    ELSE IF state = 5 /\ isdigit(c) THEN Go(6, point_seen)
    ELSE IF state = 6 /\ isdigit(c) THEN Go(6, point_seen)
    ELSE IF state = 7 /\ isdigit(c) THEN Go(2, point_seen)
    ELSE IF state = 7 /\ c = "." THEN Go(1, TRUE)
    ELSE IF state \in NumberFinalStates
    THEN [move |-> "exit", state |-> state, point_seen |-> point_seen]
    ELSE [move |-> "error", state |-> state, point_seen |-> point_seen]

\* while (true) { ... ss << c; advance(); c = peek(); }
RECURSIVE number_loop(_, _, _, _)
number_loop(L, state, point_seen, ss) ==
    IF L.exc # "none" THEN L
    ELSE LET step == NumberStep(state, peek(L), point_seen)
         IN  IF step.move = "exit"
             THEN [L EXCEPT !.currentLexeme = [type |-> "NUMBER", value |-> ss]]
             ELSE IF step.move = "error"
             THEN [L EXCEPT !.exc = "Lexical"]
             ELSE Evaluated(advance(L),
                            LAMBDA moved : number_loop(moved, step.state, step.point_seen,
                                                       Append(ss, peek(L))))

\* PBRTLexer::read_number
read_number(L) ==
    IF ~(peek(L) \in {"+", "-", "."} \/ isdigit(peek(L)))
    THEN [found |-> FALSE, lexer |-> L]
    ELSE [found |-> TRUE, lexer |-> number_loop(L, 0, FALSE, <<>>)]

\* PBRTLexer::next_lexeme, from the character remove_blanks stopped at
read_lexeme(L) ==
    IF read_indentifier(L).found THEN read_indentifier(L).lexer
    ELSE IF read_string(L).found THEN read_string(L).lexer
    ELSE IF read_number(L).found THEN read_number(L).lexer
    ELSE IF peek(L) \in {"[", "]"}
    THEN advance([L EXCEPT !.currentLexeme = [type |-> "SINGLETON", value |-> <<peek(L)>>]])
    ELSE [L EXCEPT !.exc = "Lexical"]

\* PBRTLexer::next_lexeme
next_lexeme(L) ==
    Evaluated(remove_blanks(L),
              LAMBDA at : IF at.exc # "none" THEN at ELSE read_lexeme(at))

\* ---- state -------------------------------------------------------------
VARIABLES
    phase,              \* where parse() is: "preworld", "world", "done", or how it ended
    op,                 \* the directive handled last
    arg,                \* its name argument ("" when it has none)
    budget,             \* directives the input may still hold
    gState,             \* GraphicState gState
    stateStack,         \* std::vector<GraphicState> stateStack
    CTMStack,           \* std::vector<ygl::mat4f> CTMStack
    inObjectDefinition, \* bool inObjectDefinition
    objName,            \* objName of the execute_ObjectBlock call in progress
    shapesInObject,     \* std::vector<ygl::shape*> shapesInObject
    scn,                \* ygl::scene *scn
    mats,               \* the ygl::material objects allocated so far
    shps,               \* the ygl::shape objects allocated so far
    sgs,                \* the ygl::shape_group objects allocated so far
    txts,               \* the ygl::texture objects allocated so far, each with the
                        \*   directive that allocated it and its name (<<>> : never set)
    openBlocks,         \* history: the blocks opened and not yet closed, oldest first,
                        \*   each with the state saved and the blocks open around it
    ctmAtWorldBegin,    \* history: the matrix accumulated when WorldBegin was met
    worldXf,            \* history: a transformation directive ran after WorldBegin
    ub,                 \* history: an empty std::vector was read (undefined behaviour)
    definedObjs,        \* history: the object names an ObjectEnd has registered
    atObjectBegin,      \* history: gState when the last ObjectBegin was met, <<>>
                        \*   before it
    madeBeforeWorld,    \* history: the names MakeNamedMaterial directives gave before
                        \*   WorldBegin
    defaultFocus,       \* float defaultFocus
    defaultAspect,      \* float defaultAspect, as a fraction in lowest terms
    lookedAt,           \* history: the arguments of the last LookAt, <<>> before it
    par,                \* PBRTParameter par of the handler loop that ran last
    declTxt,            \* PBRTParser.h: the DeclaredTexture objects the shared_ptrs own
    declMat,            \* PBRTParser.h: the DeclaredMaterial objects the shared_ptrs own
    lookups,            \* history: the lookups that marked, each with the block depth
    source,             \* PBRTLexer.cpp: the text read_file returned
    lexer,              \* PBRTLexer.cpp: the PBRTLexer object
    lexemes,            \* history: the lexemes next_lexeme returned, each with the
                        \*   positions of the text where it starts and ends
    files,              \* the files on disk: the lines of the parsed file and of the
                        \*   files it may include
    lexers,             \* std::vector<PBRTLexer*> lexers, lexers.at(0) first
    stream,             \* history: the lexemes current_token() has shown, in order
    opened,             \* history: the file an Include named last, with the directory of
                        \*   the including file and the filename given to PBRTLexer
    ply,                \* parse_ply: the file, the locals of the call and what it returns
    following           \* the lexemes from current_token() on when the last parse_value
                        \*   call returned

vars == <<phase, op, arg, budget, gState, stateStack, CTMStack, inObjectDefinition, objName,
          shapesInObject, scn, mats, shps, sgs, txts, openBlocks, ctmAtWorldBegin,
          worldXf, ub, definedObjs, atObjectBegin, madeBeforeWorld, defaultFocus,
          defaultAspect, lookedAt, par,
          declTxt, declMat, lookups, source, lexer, lexemes, files, lexers, stream,
          opened, following, ply>>

parserVars == <<gState, stateStack, CTMStack, inObjectDefinition, objName, shapesInObject,
                scn, mats, shps, sgs, txts>>

historyVars == <<openBlocks, ctmAtWorldBegin, worldXf, ub>>

declaredVars == <<declTxt, declMat, lookups>>

sceneWideVars == <<defaultFocus, defaultAspect, lookedAt>>

lexerVars == <<source, lexer, lexemes>>

includeVars == <<files, lexers, stream>>

EmptyMap == [n \in {} |-> 0]

AreaLightInfo == [active |-> FALSE, L |-> 1, twosided |-> FALSE]

\* PBRTParameter before parse_parameter fills it
NoParameter == [type |-> "", name |-> "", value |-> <<>>]

\* ygl::material: the fields the handlers below read or write
NewMaterial == [ke |-> 0, double_sided |-> FALSE, kd_txt |-> 0, name |-> <<>>]

\* GraphicState gState{ identity, {}, new ygl::material }: material 1 is that one
InitGState ==
    [CTM |-> identity_mat4f,
     alInfo |-> AreaLightInfo,
     mat |-> 1,
     nameToTexture |-> EmptyMap,
     nameToMaterial |-> EmptyMap,
     nameToObject |-> EmptyMap]

EmptyScene ==
    [cameras |-> <<>>, shapes |-> <<>>, instances |-> <<>>, materials |-> <<>>,
     textures |-> <<>>, environments |-> 0]

\* the parser as constructed, before parse() reads the first directive:
\* everything but the graphics state and the lexer
\* no Include met yet
NoPath == [file |-> <<>>, position |-> <<>>, path |-> <<>>, filename |-> <<>>]

ParserMembers ==
    /\ phase = "preworld"
    /\ op = "start"
    /\ arg = ""
    /\ stateStack = <<>>
    /\ CTMStack = <<>>
    /\ inObjectDefinition = FALSE
    /\ objName = "none"
    /\ shapesInObject = <<>>
    /\ scn = EmptyScene
    /\ mats = <<NewMaterial>>
    /\ shps = <<>>
    /\ sgs = <<>>
    /\ txts = <<>>
    /\ openBlocks = <<>>
    /\ ctmAtWorldBegin = identity_mat4f
    /\ worldXf = FALSE
    /\ ub = FALSE
    /\ definedObjs = {}
    /\ atObjectBegin = <<>>
    /\ madeBeforeWorld = {}
    /\ opened = NoPath
    /\ following = <<>>
    /\ defaultFocus = 1
    /\ defaultAspect = Ratio(16, 9)
    /\ lookedAt = <<>>
    /\ par = NoParameter
    /\ declTxt = <<>>
    /\ declMat = <<>>
    /\ lookups = <<>>

\* no parse_ply call yet
ParserAttributes == ParserMembers /\ ply = <<>>

NoFiles == [main |-> <<>>, f |-> <<>>, g |-> <<>>, df |-> <<>>, dg |-> <<>>]

\* the directive-level specifications draw directives, not characters
ConstructedParser ==
    /\ ParserAttributes
    /\ source = <<>>
    /\ lexer = PBRTLexer(source)
    /\ lexemes = <<>>
    /\ files = NoFiles
    /\ lexers = <<>>
    /\ stream = <<>>

Constructed == ConstructedParser /\ gState = InitGState

Init == Constructed /\ budget = MaxSteps

Running == phase \in {"preworld", "world"}

\* one more directive is read
Advance(name, a) ==
    /\ Running
    /\ budget > 0
    /\ budget' = budget - 1
    /\ op' = name
    /\ arg' = a
    /\ UNCHANGED <<madeBeforeWorld, opened, following, ply, sceneWideVars, par, lexerVars, includeVars>>

\* one more directive is read and handled by PBRTParser.cpp
Consume(name, a) ==
    /\ Advance(name, a)
    /\ UNCHANGED <<definedObjs, atObjectBegin, declaredVars>>

\* throw_syntax_error: the exception leaves parse()
throw_syntax_error(name, a) ==
    /\ Consume(name, a)
    /\ phase' = "syntax_error"
    /\ UNCHANGED <<parserVars, historyVars>>


\* ---- helpers -----------------------------------------------------------
Last(q) == q[Len(q)]

Front(q) == SubSeq(q, 1, Len(q) - 1)

RemoveAt(q, i) == SubSeq(q, 1, i - 1) \o SubSeq(q, i + 1, Len(q))

\* std::unordered_map::insert : an existing key keeps its value
MapInsert(m, k, v) == IF k \in DOMAIN m THEN m ELSE m @@ (k :> v)

\* it->second = v, or insert when the key is new
MapPut(m, k, v) == [n \in DOMAIN m \cup {k} |-> IF n = k THEN v ELSE m[n]]

\* history: the open blocks of one kind, and closing the latest of them
HasOpen(k) == \E i \in 1..Len(openBlocks) : openBlocks[i].kind = k

LastOpen(k) ==
    CHOOSE i \in 1..Len(openBlocks) :
        /\ openBlocks[i].kind = k
        /\ \A j \in (i + 1)..Len(openBlocks) : openBlocks[j].kind # k

CloseLatest(k) == IF HasOpen(k) THEN RemoveAt(openBlocks, LastOpen(k)) ELSE openBlocks

OpenOfKind(k) == SelectSeq(openBlocks, LAMBDA b : b.kind = k)

\* ---- the token stream ends, or a handler rejects its arguments ----------
\* PBRTParser::advance : InputEndedException once the last lexer is exhausted;
\* nothing in parse() catches it
InputEnded ==
    /\ Consume("EndOfInput", "")
    /\ phase' = "input_ended"
    /\ UNCHANGED <<parserVars, historyVars>>

\* a handler finds a token of the wrong kind where it expects an argument
\* (Translate without three numbers, Shape without a name string, ...)
MalformedArguments == throw_syntax_error("malformed", "")

\* ignore_current_directive : the tokens up to the next identifier are skipped.
\* In the world phase this is also what ObjectEnd outside an object and
\* WorldEnd inside an object get.
ignore_current_directive ==
    /\ Consume("ignored", "")
    /\ UNCHANGED <<phase, parserVars, historyVars>>

\* parse_preworld_directives has no branch for MakeNamedMaterial: before
\* WorldBegin the directive takes the else branch, "Ignoring MakeNamedMaterial
\* directive", and ignore_current_directive skips its name and parameters
preworld_MakeNamedMaterial(name) ==
    /\ phase = "preworld"
    /\ budget > 0
    /\ budget' = budget - 1
    /\ op' = "MakeNamedMaterial"
    /\ arg' = name
    /\ madeBeforeWorld' = madeBeforeWorld \cup {name}
    /\ UNCHANGED <<phase, parserVars, historyVars, definedObjs, atObjectBegin, sceneWideVars, par,
                   declaredVars, lexerVars, includeVars, opened, following, ply>>

\* ---- transformations ---------------------------------------------------
PostMultiply(M) ==
    /\ gState' = [gState EXCEPT !.CTM = MatMul(gState.CTM, M)]
    /\ worldXf' = (worldXf \/ phase = "world")
    /\ UNCHANGED <<phase, stateStack, CTMStack, inObjectDefinition, objName, shapesInObject,
                   scn, mats, shps, sgs, txts, openBlocks, ctmAtWorldBegin, ub>>

execute_Translate(v) ==
    /\ Consume("Translate", "")
    /\ PostMultiply(translation_mat(v))

execute_Scale(k) ==
    /\ Consume("Scale", "")
    /\ PostMultiply(scaling_mat(k))

execute_Rotate(a) ==
    /\ Consume("Rotate", "")
    /\ PostMultiply(rotation_mat(a.axis, a.angle))

\* ygl::lookat_frame for an eye straight above look on the z axis and up = y:
\* w = normalize(eye - look) = z, u = up x w = x, v = w x u = y, origin eye
lookat_frame(eye, look, up) == [s |-> 1, r |-> 0, t |-> eye]

frame_to_mat(f) == f

\* ygl::length of a vector along the z axis
length(v) == IF v[3] < 0 THEN 0 - v[3] ELSE v[3]

VecSub(a, b) == <<a[1] - b[1], a[2] - b[2], a[3] - b[3]>>

execute_LookAt(a) ==
    /\ Running
    /\ budget > 0
    /\ budget' = budget - 1
    /\ op' = "LookAt"
    /\ arg' = ""
    /\ PostMultiply(frame_to_mat(lookat_frame(a.eye, a.look, a.up)))
    /\ defaultFocus' = length(VecSub(a.eye, a.look))
    /\ lookedAt' = a
    /\ UNCHANGED <<defaultAspect, definedObjs, atObjectBegin, madeBeforeWorld, opened, following, ply, par, declaredVars, lexerVars, includeVars>>

\* ---- scene-wide options ------------------------------------------------
\* execute_Camera once its lexemes are read: scn->cameras.push_back(cam)
CameraParsed ==
    /\ Len(scn.cameras) < MaxAlloc
    /\ scn' = [scn EXCEPT !.cameras = Append(@, [frame |-> mat_to_frame(gState.CTM),
                                                  focus |-> defaultFocus,
                                                  aspect |-> defaultAspect,
                                                  by |-> "Camera"])]
    /\ UNCHANGED <<phase, gState, stateStack, CTMStack, inObjectDefinition, objName,
                   shapesInObject, mats, shps, sgs, txts, historyVars>>

execute_Camera ==
    /\ phase = "preworld"
    /\ Consume("Camera", "")
    /\ CameraParsed

\* ---- the two phases ----------------------------------------------------
WorldBeginCTMKept(ctm) == ctm

\* parse_world_directives : this->gState.CTM = ygl::identity_mat4f
WorldBeginCTM(ctm) == identity_mat4f

\* parse_preworld_directives returns at WorldBegin, parse_world_directives starts
WorldBegin ==
    /\ phase = "preworld"
    /\ Consume("WorldBegin", "")
    /\ phase' = "world"
    /\ gState' = [gState EXCEPT !.CTM = WorldBeginCTM(gState.CTM)]
    /\ ctmAtWorldBegin' = gState.CTM
    /\ UNCHANGED <<stateStack, CTMStack, inObjectDefinition, objName, shapesInObject, scn,
                   mats, shps, sgs, txts, openBlocks, worldXf, ub>>

\* the loop of parse_world_directives stops at WorldEnd and parse() returns scn;
\* inside an object definition WorldEnd is an unknown directive
WorldEnd ==
    /\ phase = "world"
    /\ ~inObjectDefinition
    /\ Consume("WorldEnd", "")
    /\ phase' = "done"
    /\ UNCHANGED <<parserVars, historyVars>>

\* ---- blocks ------------------------------------------------------------
PushedStateCTMOnly(stack, g) == Append(stack, [InitGState EXCEPT !.CTM = g.CTM])

\* stateStack.push_back(this->gState)
PushedState(stack, g) == Append(stack, g)

PoppedOldest(stack) == Tail(stack)

\* stateStack.pop_back() / CTMStack.pop_back()
Popped(stack) == Front(stack)

\* the state restored if the name tables were scene-wide
RestoredStateNamesKept(stack) ==
    [stack[Len(stack)] EXCEPT !.nameToMaterial = gState.nameToMaterial,
                              !.nameToTexture = gState.nameToTexture]

\* this->gState = stateStack.back()
RestoredState(stack) == stack[Len(stack)]

execute_AttributeBegin ==
    /\ phase = "world"
    /\ Len(stateStack) < MaxDepth
    /\ Consume("AttributeBegin", "")
    /\ stateStack' = PushedState(stateStack, gState)
    /\ openBlocks' = Append(openBlocks, [kind |-> "attr", snap |-> gState,
                                          level |-> Len(openBlocks)])
    /\ UNCHANGED <<phase, gState, CTMStack, inObjectDefinition, objName, shapesInObject,
                   scn, mats, shps, sgs, txts, ctmAtWorldBegin, worldXf, ub>>

execute_TransformBegin ==
    /\ phase = "world"
    /\ Len(CTMStack) < MaxDepth
    /\ Consume("TransformBegin", "")
    /\ CTMStack' = Append(CTMStack, gState.CTM)
    /\ openBlocks' = Append(openBlocks, [kind |-> "xf", snap |-> gState.CTM,
                                          level |-> Len(openBlocks)])
    /\ UNCHANGED <<phase, gState, stateStack, inObjectDefinition, objName, shapesInObject,
                   scn, mats, shps, sgs, txts, ctmAtWorldBegin, worldXf, ub>>

\* what back() of an empty std::vector<GraphicState> may hand out
GarbageStates == {[InitGState EXCEPT !.CTM = scaling_mat(0)]}

\* back() and pop_back() of an empty vector are undefined: the run dies, or it
\* goes on with whatever the read produced
EmptyStackRead(garbage) ==
    /\ ub' = TRUE
    /\ \/ /\ phase' = "crashed"
          /\ UNCHANGED gState
       \/ /\ phase' = phase
          /\ gState' \in garbage
    /\ worldXf' = TRUE
    /\ UNCHANGED <<stateStack, CTMStack, inObjectDefinition, objName, shapesInObject,
                   scn, mats, shps, sgs, txts, openBlocks, ctmAtWorldBegin>>

execute_AttributeEnd ==
    /\ phase = "world"
    /\ Consume("AttributeEnd", "")
    /\ IF stateStack # <<>>
       THEN /\ gState' = RestoredState(stateStack)
            /\ stateStack' = Popped(stateStack)
            /\ openBlocks' = CloseLatest("attr")
            /\ UNCHANGED <<phase, CTMStack, inObjectDefinition, objName, shapesInObject,
                           scn, mats, shps, sgs, txts, ctmAtWorldBegin, worldXf, ub>>
       ELSE EmptyStackRead(GarbageStates)

\* the state after a TransformEnd that brought back the initial material too
RestoredCTMAndMaterial(g, stack) == [g EXCEPT !.CTM = Last(stack), !.mat = 1]

\* this->gState.CTM = CTMStack.back()
RestoredCTM(g, stack) == [g EXCEPT !.CTM = Last(stack)]

execute_TransformEnd ==
    /\ phase = "world"
    /\ Consume("TransformEnd", "")
    /\ IF CTMStack # <<>>
       THEN /\ gState' = RestoredCTM(gState, CTMStack)
            /\ CTMStack' = Popped(CTMStack)
            /\ openBlocks' = CloseLatest("xf")
            /\ UNCHANGED <<phase, stateStack, inObjectDefinition, objName, shapesInObject,
                           scn, mats, shps, sgs, txts, ctmAtWorldBegin, worldXf, ub>>
       ELSE EmptyStackRead({[gState EXCEPT !.CTM = g.CTM] : g \in GarbageStates})


\* ---- shapes ------------------------------------------------------------
\* join_string_int(pref, n) : "pref_n"
join_string_int(pref, n) == <<pref, n>>

\* if (gState.alInfo.active) { shp->mat->ke = L; shp->mat->double_sided = twosided; }
\* the write goes through the pointer, to the material the state shares
AreaLightApplied(ms, g) ==
    IF g.alInfo.active
    THEN [ms EXCEPT ![g.mat] = [@ EXCEPT !.ke = g.alInfo.L,
                                         !.double_sided = g.alInfo.twosided]]
    ELSE ms

\* scn->shapes.push_back(sg) : before the test of inObjectDefinition
ShapeGroupsAdded(shapes, sg, inObject) == Append(shapes, sg)

\* execute_Shape once the shape name is read
ShapeParsed(type) ==
    /\ mats' = AreaLightApplied(mats, gState)
    /\ IF type \notin {"curve", "trianglemesh", "cube", "plymesh"}
       THEN \* ignore_current_directive, return : the new shape is dropped
            UNCHANGED <<shps, sgs, scn, shapesInObject>>
       ELSE /\ Len(shps) < MaxAlloc
            /\ shps' = Append(shps, [mat |-> gState.mat,
                                     name |-> join_string_int("shape", Len(scn.shapes)),
                                     inObject |-> inObjectDefinition])
            /\ sgs' = Append(sgs, [shapes |-> <<Len(shps) + 1>>,
                                   name |-> join_string_int("shape", Len(scn.shapes))])
            /\ IF inObjectDefinition
               THEN /\ shapesInObject' = Append(shapesInObject, Len(shps) + 1)
                    /\ scn' = [scn EXCEPT
                                 !.shapes = ShapeGroupsAdded(@, Len(sgs) + 1, TRUE)]
               ELSE /\ UNCHANGED shapesInObject
                    /\ scn' = [scn EXCEPT
                                 !.shapes = ShapeGroupsAdded(@, Len(sgs) + 1, FALSE),
                                 !.instances = Append(@,
                                     [shp |-> Len(sgs) + 1,
                                      frame |-> mat_to_frame(gState.CTM),
                                      name |-> join_string_int("instance",
                                                               Len(scn.instances))])]
    /\ UNCHANGED <<phase, gState, stateStack, CTMStack, inObjectDefinition, objName, txts,
                   historyVars>>

execute_Shape(type) ==
    /\ phase = "world"
    /\ Consume("Shape", type)
    /\ ShapeParsed(type)

\* ---- objects -----------------------------------------------------------
\* execute_ObjectBlock, up to its loop over the directives of the object
NestedObjectAllowed(inObject) == FALSE

\* if (this->inObjectDefinition) throw_syntax_error
NestedObject(inObject) == inObject

ObjectBegin(name) ==
    /\ phase = "world"
    /\ Advance("ObjectBegin", name)
    /\ IF NestedObject(inObjectDefinition)
       THEN /\ phase' = "syntax_error"
            /\ UNCHANGED <<inObjectDefinition, objName, atObjectBegin>>
       ELSE /\ inObjectDefinition' = TRUE
            /\ objName' = name
            /\ atObjectBegin' = gState
            /\ UNCHANGED phase
    /\ UNCHANGED <<definedObjs, declaredVars>>
    /\ UNCHANGED <<gState, stateStack, CTMStack, shapesInObject, scn, mats, shps, sgs,
                   txts, historyVars>>

\* execute_ObjectBlock, from the ObjectEnd that ends its loop
ObjectEnd ==
    /\ phase = "world"
    /\ inObjectDefinition
    /\ Advance("ObjectEnd", objName)
    /\ definedObjs' = definedObjs \cup {objName}
    /\ UNCHANGED <<declaredVars, atObjectBegin>>
    /\ gState' = [gState EXCEPT !.nameToObject =
                     MapPut(@, objName, [shapes |-> shapesInObject, CTM |-> gState.CTM])]
    /\ inObjectDefinition' = FALSE
    /\ objName' = "none"
    /\ shapesInObject' = <<>>
    /\ UNCHANGED <<phase, stateStack, CTMStack, scn, mats, shps, sgs, txts, historyVars>>

\* finalCTM = this->gState.CTM * objectToInstanceCTM
InstanceFrame(ctm, objectToInstanceCTM) == mat_to_frame(MatMul(ctm, objectToInstanceCTM))

ObjectShapesAppendedEachTime(shapes, sg) == Append(shapes, sg)

\* execute_ObjectInstance leaves scn->shapes alone: its shape_group is new and
\* only the instance points to it
ObjectShapesAppended(shapes, sg) == shapes

execute_ObjectInstance(name) ==
    /\ phase = "world"
    /\ Consume("ObjectInstance", name)
    /\ IF name \notin DOMAIN gState.nameToObject
       THEN /\ phase' = "syntax_error"
            /\ UNCHANGED <<sgs, scn>>
       ELSE /\ sgs' = Append(sgs, [shapes |-> gState.nameToObject[name].shapes,
                                   name |-> <<>>])
            /\ scn' = [scn EXCEPT
                         !.shapes = ObjectShapesAppended(@, Len(sgs) + 1),
                         !.instances = Append(@,
                             [shp |-> Len(sgs) + 1,
                              frame |-> InstanceFrame(gState.CTM,
                                                      gState.nameToObject[name].CTM),
                              name |-> <<>>])]
            /\ UNCHANGED phase
    /\ UNCHANGED <<gState, stateStack, CTMStack, inObjectDefinition, objName,
                   shapesInObject, mats, shps, txts, historyVars>>


\* ---- lights ------------------------------------------------------------
LightTypes == {"point", "infinite", "infinite mapname", "spot"}

\* parse_PointLight : a one-point shape with an emitting material of its own
parse_PointLight ==
    /\ Len(shps) < MaxAlloc
    /\ Len(mats) < MaxAlloc + 1
    /\ mats' = Append(mats, [NewMaterial EXCEPT
                               !.ke = 1,
                               !.name = join_string_int("material", Len(scn.materials))])
    /\ shps' = Append(shps, [mat |-> Len(mats) + 1,
                             name |-> join_string_int("shape", Len(scn.shapes)),
                             inObject |-> FALSE])
    /\ sgs' = Append(sgs, [shapes |-> <<Len(shps) + 1>>,
                           name |-> join_string_int("shape", Len(scn.shapes))])
    /\ scn' = [scn EXCEPT
                 !.materials = Append(@, Len(mats) + 1),
                 !.shapes = Append(@, Len(sgs) + 1),
                 !.instances = Append(@,
                     [shp |-> Len(sgs) + 1,
                      frame |-> mat_to_frame(gState.CTM),
                      name |-> join_string_int("instance", Len(scn.instances))])]
    /\ UNCHANGED <<phase, txts>>

\* parse_InfiniteLight : an environment, and a texture of its own for mapname
parse_InfiniteLight(mapped) ==
    /\ mapped => Len(txts) < MaxAlloc
    /\ txts' = IF mapped
               THEN Append(txts, [by |-> "LightSource", name |-> <<"mapname">>])
               ELSE txts
    /\ scn' = [scn EXCEPT
                 !.textures = IF mapped THEN Append(@, Len(txts) + 1) ELSE @,
                 !.environments = @ + 1]
    /\ UNCHANGED <<phase, mats, shps, sgs>>

execute_LightSource(type) ==
    /\ phase = "world"
    /\ Consume("LightSource", type)
    /\ CASE type = "point" -> parse_PointLight
         [] type = "infinite" -> parse_InfiniteLight(FALSE)
         [] type = "infinite mapname" -> parse_InfiniteLight(TRUE)
         [] OTHER -> /\ phase' = "syntax_error"
                     /\ UNCHANGED <<scn, mats, shps, sgs, txts>>
    /\ UNCHANGED <<gState, stateStack, CTMStack, inObjectDefinition, objName,
                   shapesInObject, historyVars>>

execute_AreaLightSource(twosided) ==
    /\ phase = "world"
    /\ Consume("AreaLightSource", "")
    /\ gState' = [gState EXCEPT !.alInfo = [active |-> TRUE, L |-> 1,
                                            twosided |-> twosided]]
    /\ UNCHANGED <<phase, stateStack, CTMStack, inObjectDefinition, objName,
                   shapesInObject, scn, mats, shps, sgs, txts, historyVars>>

\* ---- materials ---------------------------------------------------------
\* parse_material_properties, "texture Kd" : gState.nameToTexture.find(txtName);
\* "" stands for a Kd given as a colour, or not given
KdResolves(tex) == tex = "" \/ tex \in DOMAIN gState.nameToTexture

KdTexture(tex) == IF tex = "" THEN 0 ELSE gState.nameToTexture[tex]

execute_Material(tex) ==
    /\ phase = "world"
    /\ Consume("Material", tex)
    /\ IF ~KdResolves(tex)
       THEN /\ phase' = "syntax_error"
            /\ UNCHANGED <<gState, mats, scn>>
       ELSE /\ Len(mats) < MaxAlloc + 1
            /\ mats' = Append(mats, [NewMaterial EXCEPT
                                       !.kd_txt = KdTexture(tex),
                                       !.name = join_string_int("material",
                                                                Len(scn.materials))])
            /\ gState' = [gState EXCEPT !.mat = Len(mats) + 1]
            /\ scn' = [scn EXCEPT !.materials = Append(@, Len(mats) + 1)]
            /\ UNCHANGED phase
    /\ UNCHANGED <<stateStack, CTMStack, inObjectDefinition, objName, shapesInObject,
                   shps, sgs, txts, historyVars>>

execute_MakeNamedMaterial(name, tex) ==
    /\ phase = "world"
    /\ Consume("MakeNamedMaterial", name)
    /\ IF name \in DOMAIN gState.nameToMaterial \/ ~KdResolves(tex)
       THEN /\ phase' = "syntax_error"
            /\ UNCHANGED <<gState, mats, scn>>
       ELSE /\ Len(mats) < MaxAlloc + 1
            /\ mats' = Append(mats, [NewMaterial EXCEPT
                                       !.kd_txt = KdTexture(tex),
                                       !.name = join_string_int("material",
                                                                Len(scn.materials))])
            /\ gState' = [gState EXCEPT
                            !.nameToMaterial = MapInsert(@, name, Len(mats) + 1)]
            /\ scn' = [scn EXCEPT !.materials = Append(@, Len(mats) + 1)]
            /\ UNCHANGED phase
    /\ UNCHANGED <<stateStack, CTMStack, inObjectDefinition, objName, shapesInObject,
                   shps, sgs, txts, historyVars>>

\* the scene's materials list if selecting a material pushed it as creating one does
NamedMaterialSelectedPushed(materials, m) == Append(materials, m)

\* execute_NamedMaterial only sets gState.mat: scn->materials is not touched
NamedMaterialSelected(materials, m) == materials

execute_NamedMaterial(name) ==
    /\ phase = "world"
    /\ Consume("NamedMaterial", name)
    /\ IF name \notin DOMAIN gState.nameToMaterial
       THEN /\ phase' = "syntax_error"
            /\ UNCHANGED <<gState, scn>>
       ELSE /\ gState' = [gState EXCEPT !.mat = gState.nameToMaterial[name]]
            /\ scn' = [scn EXCEPT !.materials =
                                    NamedMaterialSelected(@, gState.nameToMaterial[name])]
            /\ UNCHANGED phase
    /\ UNCHANGED <<stateStack, CTMStack, inObjectDefinition, objName, shapesInObject,
                   mats, shps, sgs, txts, historyVars>>

\* ---- textures ----------------------------------------------------------
\* scn->textures.push_back(txt) : as soon as the texture is created
SceneTexturesAtDeclaration(textures, t) == Append(textures, t)

\* knownFormat : the filename ends in ".png" or ".exr"
execute_Texture(name, knownFormat) ==
    /\ phase = "world"
    /\ Consume("Texture", name)
    /\ IF name \in DOMAIN gState.nameToTexture
       THEN /\ phase' = "syntax_error"
            /\ UNCHANGED <<gState, txts, scn>>
       ELSE /\ Len(txts) < MaxAlloc
            /\ txts' = Append(txts, [by |-> "Texture", name |-> <<>>])
            /\ scn' = [scn EXCEPT
                         !.textures = SceneTexturesAtDeclaration(@, Len(txts) + 1)]
            /\ IF knownFormat
               THEN /\ gState' = [gState EXCEPT
                                    !.nameToTexture = MapInsert(@, name, Len(txts) + 1)]
                    /\ UNCHANGED phase
               ELSE /\ phase' = "syntax_error"
                    /\ UNCHANGED gState
    /\ UNCHANGED <<stateStack, CTMStack, inObjectDefinition, objName, shapesInObject,
                   mats, shps, sgs, historyVars>>

\* ---- the parser --------------------------------------------------------
\* parse_preworld_directives / parse_world_directive / parse_object_directive
Next ==
    \/ InputEnded
    \/ MalformedArguments
    \/ ignore_current_directive
    \/ \E v \in TranslateVecs : execute_Translate(v)
    \/ \E k \in ScaleFactors : execute_Scale(k)
    \/ execute_Camera
    \/ WorldBegin
    \/ WorldEnd
    \/ execute_AttributeBegin
    \/ execute_AttributeEnd
    \/ execute_TransformBegin
    \/ execute_TransformEnd
    \/ \E type \in ShapeTypes : execute_Shape(type)
    \/ \E name \in Names : ObjectBegin(name)
    \/ ObjectEnd
    \/ \E name \in Names : execute_ObjectInstance(name)
    \/ \E type \in LightTypes : execute_LightSource(type)
    \/ \E twosided \in BOOLEAN : execute_AreaLightSource(twosided)
    \/ \E tex \in Names \cup {""} : execute_Material(tex)
    \/ \E name \in Names, tex \in Names \cup {""} : execute_MakeNamedMaterial(name, tex)
    \/ \E name \in Names : execute_NamedMaterial(name)
    \/ \E name \in Names, knownFormat \in BOOLEAN : execute_Texture(name, knownFormat)

Spec == Init /\ [][Next]_vars


\* ---- the directives that define and instantiate objects ----------------
NextObjects ==
    \/ \E v \in TranslateVecs : execute_Translate(v)
    \/ \E k \in ScaleFactors : execute_Scale(k)
    \/ WorldBegin
    \/ WorldEnd
    \/ execute_AttributeBegin
    \/ execute_AttributeEnd
    \/ \E type \in ShapeTypes : execute_Shape(type)
    \/ \E name \in Names : ObjectBegin(name)
    \/ ObjectEnd
    \/ \E name \in Names : execute_ObjectInstance(name)

InitObjects == Constructed /\ budget = MaxObjSteps

SpecObjects == InitObjects /\ [][NextObjects]_vars

\* ---- the directives that create, select and use materials --------------
NextMaterials ==
    \/ \E name \in Names : preworld_MakeNamedMaterial(name)
    \/ WorldBegin
    \/ WorldEnd
    \/ execute_AttributeBegin
    \/ execute_AttributeEnd
    \/ \E type \in ShapeTypes : execute_Shape(type)
    \/ \E twosided \in BOOLEAN : execute_AreaLightSource(twosided)
    \/ \E tex \in Names \cup {""} : execute_Material(tex)
    \/ \E name \in Names, tex \in Names \cup {""} : execute_MakeNamedMaterial(name, tex)
    \/ \E name \in Names : execute_NamedMaterial(name)
    \/ \E name \in Names, knownFormat \in BOOLEAN : execute_Texture(name, knownFormat)

InitMaterials == Constructed /\ budget = MaxMatSteps

SpecMaterials == InitMaterials /\ [][NextMaterials]_vars

\* ---- the directives that place the camera ------------------------------
NextCamera ==
    \/ \E a \in LookAtArgs : execute_LookAt(a)
    \/ \E v \in TranslateVecs : execute_Translate(v)
    \/ \E k \in ScaleFactors : execute_Scale(k)
    \/ execute_Camera
    \/ WorldBegin
    \/ WorldEnd
    \/ \E type \in ShapeTypes : execute_Shape(type)

InitCamera == Constructed /\ budget = MaxCamSteps

SpecCamera == InitCamera /\ [][NextCamera]_vars


\* ---- declared resources (PBRTParser.h) ---------------------------------
\* In the revision of PBRTParser.h the name tables of the graphics state hold
\* std::shared_ptr<DeclaredTexture> and std::shared_ptr<DeclaredMaterial>: below
\* a table maps a name to the index of the object in declTxt / declMat, so that
\* a copy of the table shares the objects, as a copy of the shared_ptrs does.

\* GraphicsState gState{ ygl::identity_mat4f, {}, nullptr } : no current material;
\* nameToObject stays empty, the object table is not in this GraphicsState
InitGraphicsState == [InitGState EXCEPT !.mat = 0]

\* DeclaredTexture(t, uscale, vscale) : txt(t), addedInScene = false
DeclaredTexture(t) == [txt |-> t, addedInScene |-> FALSE]

\* DeclaredMaterial(m) : mat(m), addedInScene = false
DeclaredMaterial(m) == [mat |-> m, addedInScene |-> FALSE]

MarkedAddedInSceneForgotten(declared, it) == declared

\* it->second->addedInScene = true
MarkedAddedInScene(declared, it) == [declared EXCEPT ![it].addedInScene = TRUE]

\* Texture : the texture is registered under its name, not yet in the scene
DeclareTexture(name) ==
    /\ phase = "world"
    /\ Advance("Texture", name)
    /\ IF name \in DOMAIN gState.nameToTexture
       THEN /\ phase' = "syntax_error"
            /\ UNCHANGED <<gState, txts, declTxt>>
       ELSE /\ Len(txts) < MaxAlloc
            /\ txts' = Append(txts, [by |-> "Texture"])
            /\ declTxt' = Append(declTxt, DeclaredTexture(Len(txts) + 1))
            /\ gState' = [gState EXCEPT
                            !.nameToTexture = MapInsert(@, name, Len(declTxt) + 1)]
            /\ UNCHANGED phase
    /\ UNCHANGED <<stateStack, CTMStack, inObjectDefinition, objName, shapesInObject, scn,
                   mats, shps, sgs, historyVars, definedObjs, atObjectBegin, declMat, lookups>>

\* MakeNamedMaterial : the material is registered under its name, not yet in the scene
DeclareMaterial(name) ==
    /\ phase = "world"
    /\ Advance("MakeNamedMaterial", name)
    /\ IF name \in DOMAIN gState.nameToMaterial
       THEN /\ phase' = "syntax_error"
            /\ UNCHANGED <<gState, mats, declMat>>
       ELSE /\ Len(mats) < MaxAlloc + 1
            /\ mats' = Append(mats, NewMaterial)
            /\ declMat' = Append(declMat, DeclaredMaterial(Len(mats) + 1))
            /\ gState' = [gState EXCEPT
                            !.nameToMaterial = MapInsert(@, name, Len(declMat) + 1)]
            /\ UNCHANGED phase
    /\ UNCHANGED <<stateStack, CTMStack, inObjectDefinition, objName, shapesInObject, scn,
                   shps, sgs, txts, historyVars, definedObjs, atObjectBegin, declTxt, lookups>>

\* a directive calls texture_lookup(name, markAsAddedInScene)
texture_lookup(name, markAsAddedInScene) ==
    /\ phase = "world"
    /\ Advance("texture_lookup", name)
    /\ IF name \notin DOMAIN gState.nameToTexture
       THEN /\ phase' = "syntax_error"
            /\ UNCHANGED <<scn, declTxt, lookups>>
       ELSE LET it == gState.nameToTexture[name]
            IN  /\ IF markAsAddedInScene /\ declTxt[it].addedInScene = FALSE
                   THEN /\ scn' = [scn EXCEPT !.textures = Append(@, declTxt[it].txt)]
                        /\ declTxt' = MarkedAddedInScene(declTxt, it)
                   ELSE UNCHANGED <<scn, declTxt>>
                /\ lookups' = IF markAsAddedInScene
                              THEN Append(lookups, <<"texture", it, Len(stateStack)>>)
                              ELSE lookups
                /\ UNCHANGED phase
    /\ UNCHANGED <<gState, stateStack, CTMStack, inObjectDefinition, objName,
                   shapesInObject, mats, shps, sgs, txts, historyVars, definedObjs, atObjectBegin,
                   declMat>>

\* a directive calls material_lookup(name, markAsAddedInScene)
material_lookup(name, markAsAddedInScene) ==
    /\ phase = "world"
    /\ Advance("material_lookup", name)
    /\ IF name \notin DOMAIN gState.nameToMaterial
       THEN /\ phase' = "syntax_error"
            /\ UNCHANGED <<scn, declMat, lookups>>
       ELSE LET it == gState.nameToMaterial[name]
            IN  /\ IF markAsAddedInScene /\ declMat[it].addedInScene = FALSE
                   THEN /\ scn' = [scn EXCEPT !.materials = Append(@, declMat[it].mat)]
                        /\ declMat' = MarkedAddedInScene(declMat, it)
                   ELSE UNCHANGED <<scn, declMat>>
                /\ lookups' = IF markAsAddedInScene
                              THEN Append(lookups, <<"material", it, Len(stateStack)>>)
                              ELSE lookups
                /\ UNCHANGED phase
    /\ UNCHANGED <<gState, stateStack, CTMStack, inObjectDefinition, objName,
                   shapesInObject, mats, shps, sgs, txts, historyVars, definedObjs, atObjectBegin,
                   declTxt>>

NextLookup ==
    \/ WorldBegin
    \/ WorldEnd
    \/ execute_AttributeBegin
    \/ execute_AttributeEnd
    \/ \E name \in Names : DeclareTexture(name)
    \/ \E name \in Names : DeclareMaterial(name)
    \/ \E name \in Names, markAsAddedInScene \in BOOLEAN :
           texture_lookup(name, markAsAddedInScene)
    \/ \E name \in Names, markAsAddedInScene \in BOOLEAN :
           material_lookup(name, markAsAddedInScene)

InitLookup == ConstructedParser /\ gState = InitGraphicsState /\ budget = MaxLookupSteps

SpecLookup == InitLookup /\ [][NextLookup]_vars


\* ---- the lexer on its own ----------------------------------------------
\* read_file ends every line with "\n": a text is empty or ends with "\n"
RECURSIVE TextsOver(_, _)
TextsOver(chars, n) ==
    IF n = 0 THEN {<<>>}
    ELSE LET shorter == TextsOver(chars, n - 1)
         IN  shorter \cup {Append(t, c) : t \in shorter, c \in chars}

NumberChars == {"+", "-", ".", "e", "E"} \cup Digits

TextChars == {"a", "1", ".", "\"", "[", "#", " ", "\n"}

Texts ==
    {<<>>} \cup {Append(t, "\n") : t \in TextsOver(NumberChars, MaxNumberLen)
                                        \cup TextsOver(TextChars, MaxTextLen)}

\* a caller asks the lexer for the next lexeme; a caller that caught the
\* end-of-input exception may ask again, the lexer being as the throw left it
NextLexeme ==
    /\ lexer.exc \in {"none", "InputEnded"}
    /\ lexer' = next_lexeme([lexer EXCEPT !.exc = "none"])
    /\ lexemes' = IF lexer'.exc = "none"
                  THEN Append(lexemes, [type |-> lexer'.currentLexeme.type,
                                        value |-> lexer'.currentLexeme.value,
                                        from |-> remove_blanks(lexer).currentPos,
                                        to |-> lexer'.currentPos])
                  ELSE lexemes
    /\ UNCHANGED <<phase, op, arg, budget, parserVars, historyVars, definedObjs, atObjectBegin,
                   madeBeforeWorld, opened, following, ply, sceneWideVars, par, declaredVars, source, includeVars>>

InitLexer ==
    /\ ParserAttributes
    /\ gState = InitGState
    /\ budget = 0
    /\ source \in Texts
    /\ lexer = PBRTLexer(source)
    /\ lexemes = <<>>
    /\ files = NoFiles
    /\ lexers = <<>>
    /\ stream = <<>>

SpecLexer == InitLexer /\ [][NextLexeme]_vars


\* ---- paths of files ---------------------------------------------------
\* standardize_path_separator
standardize_path_separator(path) ==
    [i \in 1..Len(path) |-> IF path[i] = "\\" THEN "/" ELSE path[i]]

\* file.find_last_of('/') as a 1-based index, 0 for npos
find_last_of(file, ch) ==
    IF \E i \in 1..Len(file) : file[i] = ch
    THEN CHOOSE i \in 1..Len(file) : file[i] = ch /\ \A j \in (i + 1)..Len(file) : file[j] # ch
    ELSE 0

\* get_path_and_filename
get_path_and_filename(file) ==
    LET std == standardize_path_separator(file)
        p1 == find_last_of(std, "/")
    IN  IF p1 = 0 THEN [path |-> <<".">>, filename |-> std]
        ELSE [path |-> SubSeq(std, 1, p1 - 1), filename |-> SubSeq(std, p1 + 1, Len(std))]

IsAbsoluteSlashOnly(path) == path[1] = "/"

\* path[0] == '/' || (path.length() > 3 && path[1] == ':' && path[2] == '/')
IsAbsolute(path) == path[1] = "/" \/ (Len(path) > 3 /\ path[2] = ":" /\ path[3] = "/")

\* concatenate_paths
concatenate_paths(position, path) ==
    IF Len(path) = 0 THEN <<>>
    ELSE LET std == standardize_path_separator(path)
         IN  IF IsAbsolute(std) THEN std ELSE position \o <<"/">> \o std


\* ---- the stack of lexers (Include) -------------------------------------
\* A file is the sequence of its lines; a line holds one item. read_file
\* returns every line followed by "\n", and "" for a file of no line.
IncludeWord == <<"I", "n", "c", "l", "u", "d", "e">>

LineText(item) ==
    CASE item = "Include f" -> IncludeWord \o <<" ", "\"", "f", "\"">>
      [] item = "Include g" -> IncludeWord \o <<" ", "\"", "g", "\"">>
      [] item = "Include d/f" -> IncludeWord \o <<" ", "\"", "d", "/", "f", "\"">>
      [] item = "Include" -> IncludeWord
      [] item = "\"g\"" -> <<"\"", "g", "\"">>
      [] item = "WorldBegin" -> <<"W", "o", "r", "l", "d", "B", "e", "g", "i", "n">>
      [] item = "WorldEnd" -> <<"W", "o", "r", "l", "d", "E", "n", "d">>
      [] item = "X 1" -> <<"X", " ", "1">>
      [] item = "\"s" -> <<"\"", "s">>
      [] item = "# c" -> <<"#", " ", "c">>
      [] item = "" -> <<>>
      [] OTHER -> <<item>>

RECURSIVE read_file(_)
read_file(lines) ==
    IF lines = <<>> THEN <<>>
    ELSE LineText(lines[1]) \o <<"\n">> \o read_file(Tail(lines))

RECURSIVE LinesOver(_, _)
LinesOver(items, n) ==
    IF n = 0 THEN {<<>>}
    ELSE LinesOver(items, n - 1)
         \cup {Append(ls, i) : ls \in LinesOver(items, n - 1), i \in items}

MainItems == {"a", "Include f", "Include"}
FItems == {"e", "Include g"}
GItems == {"1", ""}

\* the file a name stands for: m, f and g in the directory of the run, f and g
\* in its directory d; a file that does not exist reads as ""
FileNamed(value) ==
    CASE value = <<"m">> -> files.main
      [] value = <<".", "/", "f">> -> files.f
      [] value = <<".", "/", "g">> -> files.g
      [] value = <<".", "/", "d", "/", "f">> -> files.df
      [] value = <<".", "/", "d", "/", "g">> -> files.dg
      [] OTHER -> <<>>

\* new PBRTLexer(filename) : the text of the file, and the path and the
\* filename that get_path_and_filename gives
LexerOf(filename) ==
    PBRTLexer(read_file(FileNamed(filename)))
        @@ [path |-> get_path_and_filename(filename).path,
            filename |-> get_path_and_filename(filename).filename]

\* the path of the file parse() began with
current_pathOfMain(ls) == ls[Len(ls)].path

\* std::string& current_path() : lexers.at(0)->path
current_path(ls) == ls[1].path

\* std::string current_file()
current_file(ls) == ls[1].path \o <<"/">> \o ls[1].filename

\* Lexeme& current_token() : lexers.at(0)->currentLexeme
current_token(ls) == ls[1].currentLexeme

\* PBRTParser::advance : lexers and the exception that leaves the call
RECURSIVE parser_advance(_)
parser_advance(ls) ==
    Evaluated(ls, LAMBDA stack :
        Evaluated(next_lexeme(stack[1]), LAMBDA top :
            IF top.exc = "InputEnded"
            THEN IF Len(stack) = 1
                 THEN [lexers |-> <<>>, exc |-> "InputEnded"]
                 ELSE parser_advance(Tail(stack))
            ELSE [lexers |-> <<top>> \o Tail(stack), exc |-> top.exc]))

\* were the exception caught and the loop resumed
ThrownCaught(exc) == "preworld"

\* the phase parse() is left in by an exception
Thrown(exc) == IF exc = "InputEnded" THEN "input_ended" ELSE "lexical_error"

\* parse() : the first this->advance()
ParseStart ==
    /\ op = "start"
    /\ op' = "parse"
    /\ LET r == parser_advance(lexers)
       IN  /\ lexers' = r.lexers
           /\ IF r.exc = "none"
              THEN /\ stream' = Append(stream, current_token(r.lexers))
                   /\ UNCHANGED phase
              ELSE /\ phase' = Thrown(r.exc)
                   /\ UNCHANGED stream
    /\ UNCHANGED <<arg, budget, parserVars, historyVars, definedObjs, atObjectBegin, madeBeforeWorld, opened, following, ply,
                   sceneWideVars, par, declaredVars,
                   lexerVars, files>>

\* any handler but execute_Include takes the current lexeme: this->advance()
TakeLexeme ==
    /\ op # "start" /\ phase = "preworld"
    /\ ~(current_token(lexers).type = "IDENTIFIER"
            /\ current_token(lexers).value = IncludeWord)
    /\ op' = "advance"
    /\ LET r == parser_advance(lexers)
       IN  /\ lexers' = r.lexers
           /\ IF r.exc = "none"
              THEN /\ stream' = Append(stream, current_token(r.lexers))
                   /\ UNCHANGED phase
              ELSE /\ phase' = Thrown(r.exc)
                   /\ UNCHANGED stream
    /\ UNCHANGED <<arg, budget, parserVars, historyVars, definedObjs, atObjectBegin, madeBeforeWorld, opened, following, ply,
                   sceneWideVars, par, declaredVars,
                   lexerVars, files>>

\* PBRTParser::execute_Include
execute_Include ==
    /\ op # "start" /\ phase \in {"preworld", "world"}
    /\ lexers # <<>>
    /\ current_token(lexers).type = "IDENTIFIER"
    /\ current_token(lexers).value = IncludeWord
    /\ op' = "Include"
    /\ \E name \in {parser_advance(lexers)} :
          IF name.exc # "none"
          THEN /\ lexers' = name.lexers
               /\ phase' = Thrown(name.exc)
               /\ UNCHANGED stream
          ELSE IF current_token(name.lexers).type # "STRING"
                  \/ current_token(name.lexers).value = <<>>
          THEN /\ lexers' = name.lexers
               /\ phase' = "syntax_error"
               /\ stream' = Append(stream, current_token(name.lexers))
          ELSE \E fileToBeIncl \in {current_token(name.lexers).value} :
               \E first \in {parser_advance(
                                 <<LexerOf(concatenate_paths(current_path(name.lexers),
                                                             fileToBeIncl))>>
                                     \o name.lexers)} :
                   /\ lexers' = first.lexers
                   /\ IF first.exc = "none"
                      THEN /\ stream' = stream \o <<current_token(name.lexers),
                                                    current_token(first.lexers)>>
                           /\ UNCHANGED phase
                      ELSE /\ stream' = Append(stream, current_token(name.lexers))
                           /\ phase' = Thrown(first.exc)
    /\ UNCHANGED <<arg, budget, parserVars, historyVars, definedObjs, atObjectBegin, madeBeforeWorld, opened, following, ply,
                   sceneWideVars, par, declaredVars,
                   lexerVars, files>>

NextInclude == ParseStart \/ TakeLexeme \/ execute_Include

InitInclude ==
    /\ ParserAttributes
    /\ gState = InitGState
    /\ budget = 0
    /\ source = <<>>
    /\ lexer = PBRTLexer(source)
    /\ lexemes = <<>>
    /\ files \in [main : LinesOver(MainItems, MaxFileLines),
                  f : LinesOver(FItems, MaxFileLines),
                  g : LinesOver(GItems, MaxFileLines),
                  df : {<<>>}, dg : {<<>>}]
    /\ lexers = <<LexerOf(<<"m">>)>>
    /\ stream = <<>>

SpecInclude == InitInclude /\ [][NextInclude]_vars

\* ---- the dispatchers, lexeme by lexeme ----------------------------------
\* The lexemes are drawn as advance() shows them; budget counts those the
\* input may still hold, stream holds those shown, values are whole words.
Lexeme(t, v) == [type |-> t, value |-> v]

IdentifierLexemes ==
    {Lexeme("IDENTIFIER", v) : v \in {"WorldBegin", "WorldEnd", "FooBar", "Shape"}}

ArgumentLexemes ==
    {Lexeme("NUMBER", "1"), Lexeme("STRING", "cube"), Lexeme("STRING", "sphere")}

Lexemes == IdentifierLexemes \cup ArgumentLexemes

\* the directives the dispatcher of each phase has a branch for, among those
\* of the alphabet (WorldBegin and WorldEnd end the loops)
KnownDirectives ==
    IF phase = "preworld" THEN {"WorldBegin"} ELSE {"WorldEnd", "Shape"}

\* this->current_token()
token == stream[Len(stream)]

\* while (current_token().get_type() != IDENTIFIER) advance() stops at t
EndsSkipOrString(t) == t.type \in {"IDENTIFIER", "STRING"}

EndsSkip(t) == t.type = "IDENTIFIER"

\* the runs of lexemes such a loop advances over and the lexeme it stops at
SkippedRuns(n) == TextsOver({t \in Lexemes : ~EndsSkip(t)}, n)

SkipEnds == {t \in Lexemes : EndsSkip(t)}

\* advance() shows the lexemes of run, one call each
Shown(name, a, run) ==
    /\ Len(run) <= budget
    /\ budget' = budget - Len(run)
    /\ stream' = stream \o run
    /\ op' = name
    /\ arg' = a
    /\ UNCHANGED <<definedObjs, atObjectBegin, madeBeforeWorld, opened, following, ply, sceneWideVars, par, declaredVars, lexerVars,
                   files, lexers>>

AtDirective == Running /\ stream # <<>>

\* the advance() after the lexemes shown throws InputEndedException, which
\* leaves parse()
InputEndedException == phase' = "input_ended"

\* parse() : the first advance()
first_advance ==
    /\ op = "start"
    /\ \/ \E t \in Lexemes : Shown("parse", "", <<t>>) /\ UNCHANGED phase
       \/ Shown("parse", "", <<>>) /\ InputEndedException
    /\ UNCHANGED <<parserVars, historyVars>>

\* both dispatchers: the current lexeme is no identifier
identifier_expected ==
    /\ AtDirective
    /\ token.type # "IDENTIFIER"
    /\ Shown("malformed", "", <<>>)
    /\ phase' = "syntax_error"
    /\ UNCHANGED <<parserVars, historyVars>>

\* the else branch of both dispatchers: ignore_current_directive advances
\* once and then until the current lexeme is an identifier
unknown_directive ==
    /\ AtDirective
    /\ token.type = "IDENTIFIER"
    /\ token.value \notin KnownDirectives
    /\ \E run \in SkippedRuns(budget) :
          \/ \E t \in SkipEnds : /\ Shown("ignored", token.value, Append(run, t))
                                 /\ UNCHANGED phase
          \/ Shown("ignored", token.value, run) /\ InputEndedException
    /\ UNCHANGED <<parserVars, historyVars>>

\* parse_preworld_directives returns at WorldBegin; parse_world_directives
\* resets the CTM and advances
dispatch_WorldBegin ==
    /\ AtDirective
    /\ phase = "preworld"
    /\ token = Lexeme("IDENTIFIER", "WorldBegin")
    /\ \/ \E t \in Lexemes : Shown("WorldBegin", "", <<t>>) /\ phase' = "world"
       \/ Shown("WorldBegin", "", <<>>) /\ InputEndedException
    /\ gState' = [gState EXCEPT !.CTM = WorldBeginCTM(gState.CTM)]
    /\ ctmAtWorldBegin' = gState.CTM
    /\ UNCHANGED <<stateStack, CTMStack, inObjectDefinition, objName, shapesInObject, scn,
                   mats, shps, sgs, txts, openBlocks, worldXf, ub>>

\* the loop of parse_world_directives stops at WorldEnd and parse() returns scn
dispatch_WorldEnd ==
    /\ AtDirective
    /\ phase = "world"
    /\ token = Lexeme("IDENTIFIER", "WorldEnd")
    /\ Shown("WorldEnd", "", <<>>)
    /\ phase' = "done"
    /\ UNCHANGED <<parserVars, historyVars>>

\* execute_Shape, lexeme by lexeme: the shape name, then parse_cube advances
\* to the next identifier; for a shape type without a parser the lexeme after
\* the name is current when ignore_current_directive advances once more
dispatch_Shape ==
    /\ AtDirective
    /\ phase = "world"
    /\ token = Lexeme("IDENTIFIER", "Shape")
    /\ \/ /\ Shown("Shape", "", <<>>)
          /\ InputEndedException
          /\ UNCHANGED <<parserVars, historyVars>>
       \/ \E name \in Lexemes :
             /\ name.type # "STRING"
             /\ Shown("Shape", "", <<name>>)
             /\ phase' = "syntax_error"
             /\ UNCHANGED <<parserVars, historyVars>>
       \/ \E name \in Lexemes, run \in SkippedRuns(budget), ended \in BOOLEAN :
             /\ name.type = "STRING"
             /\ LET after == IF name.value = "cube" THEN {<<>>}
                             ELSE {<<t>> : t \in Lexemes}
                IN  \E skipped \in after :
                       IF ended
                       THEN /\ \/ /\ Shown("Shape", name.value, <<name>>)
                                  /\ UNCHANGED mats
                               \/ /\ Shown("Shape", name.value, <<name>> \o skipped \o run)
                                  /\ mats' = AreaLightApplied(mats, gState)
                            /\ InputEndedException
                            /\ UNCHANGED <<gState, stateStack, CTMStack, inObjectDefinition,
                                           objName, shapesInObject, scn, shps, sgs, txts,
                                           historyVars>>
                       ELSE \E t \in SkipEnds :
                               /\ Shown("Shape", name.value,
                                        <<name>> \o skipped \o Append(run, t))
                               /\ ShapeParsed(name.value)

NextTokens ==
    \/ first_advance
    \/ identifier_expected
    \/ unknown_directive
    \/ dispatch_WorldBegin
    \/ dispatch_WorldEnd
    \/ dispatch_Shape

InitTokens == Constructed /\ budget = MaxTokens

SpecTokens == InitTokens /\ [][NextTokens]_vars

\* ---- parameters ---------------------------------------------------------
\* parse_parameter and parse_value_array read the lexemes advance() shows:
\* toks[1] is current_token() and advance() drops it. The value of the string
\* lexeme that heads a parameter is the list of its words.
\* split(text, " "): the runs of characters between the separators; the text of
\* a parameter header is written as its words and the " " between them
split(text) == SelectSeq(text, LAMBDA c : c # " ")

check_type_existence(val) ==
    val \in {"integer", "float", "point2", "vector2", "point3", "vector3", "normal3",
             "spectrum", "bool", "string", "rgb", "color", "point", "vector", "normal",
             "texture"}

check_synonym(s) ==
    CASE s = "point" -> "point3"
      [] s = "normal" -> "normal3"
      [] s = "vector" -> "vector3"
      [] s \in {"rgb", "color"} -> "rgb"
      [] OTHER -> s

\* atof / atoi on the number lexemes of the inputs
atof(x) == CASE x = "1" -> 1 [] x = "2" -> 2 [] OTHER -> 0

\* the checkValue lambdas of parse_parameter and execute_Transform
checkValue(check, lex) ==
    CASE check = "NUMBER" -> lex.type = "NUMBER"
      [] check = "STRING" -> lex.type = "STRING"
      [] check = "BOOL" -> lex.type = "STRING" /\ lex.value \in {"true", "false"}

\* the convert2 lambdas
convert2(check, x) ==
    CASE check = "NUMBER" -> atof(x)
      [] check = "STRING" -> x
      [] check = "BOOL" -> (x = "true")

\* the convert lambdas: one value, or the group as a vector
convert(value, g) == IF g = 1 THEN value[1] ELSE value

IsSingleton(lex, c) == lex.type = "SINGLETON" /\ lex.value = c

Thrown3(exc) == [vals |-> <<>>, toks |-> <<>>, exc |-> exc]

TooFewValuesIgnored(i) == FALSE

\* "]" met inside a group: if (i == 0) stopped, else Too few values
TooFewValues(i) == i # 0

\* the while (!stopped) / for (i < groupSize) loops of parse_value_array;
\* value holds the i values of the group read so far
RECURSIVE array_loop(_, _, _, _, _, _)
array_loop(toks, groupSize, check, i, value, vals) ==
    LET next == Tail(toks)
    IN  IF next = <<>> THEN Thrown3("input_ended")
        ELSE IF IsSingleton(next[1], "]")
        THEN IF TooFewValues(i) THEN Thrown3("syntax_error")
             ELSE [vals |-> vals, toks |-> next, exc |-> "none"]
        ELSE IF ~checkValue(check, next[1]) THEN Thrown3("syntax_error")
        ELSE LET read == Append(value, convert2(check, next[1].value))
             IN  IF i + 1 = groupSize
                 THEN array_loop(next, groupSize, check, 0, <<>>,
                                 Append(vals, convert(read, groupSize)))
                 ELSE array_loop(next, groupSize, check, i + 1, read, vals)

parse_value_array(toks, groupSize, check) ==
    LET first == Tail(toks)
        r == IF first = <<>> THEN Thrown3("input_ended")
             ELSE IF checkValue(check, first[1]) /\ groupSize = 1
             THEN [vals |-> <<convert(<<convert2(check, first[1].value)>>, 1)>>,
                   toks |-> first, exc |-> "none"]
             ELSE IF IsSingleton(first[1], "[")
             THEN array_loop(first, groupSize, check, 0, <<>>, <<>>)
             ELSE Thrown3("syntax_error")
    IN  IF r.exc # "none" THEN r
        ELSE IF Tail(r.toks) = <<>> THEN Thrown3("input_ended")
        ELSE [r EXCEPT !.toks = Tail(r.toks)]

NotParsed(exc) == [par |-> NoParameter, toks |-> <<>>, exc |-> exc]

parse_parameter(toks) ==
    IF toks[1].type # "STRING" THEN NotParsed("syntax_error")
    ELSE LET tokens == split(toks[1].value)
         IN  IF ~check_type_existence(tokens[1]) THEN NotParsed("syntax_error")
             ELSE LET type == check_synonym(tokens[1])
                      r == CASE type \in {"string", "texture"} ->
                                    parse_value_array(toks, 1, "STRING")
                             [] type \in {"float", "integer"} ->
                                    parse_value_array(toks, 1, "NUMBER")
                             [] type = "bool" -> parse_value_array(toks, 1, "BOOL")
                             [] type \in {"point3", "normal3", "rgb", "spectrum"} ->
                                    parse_value_array(toks, 3, "NUMBER")
                             [] OTHER -> Thrown3("syntax_error")
                  IN  IF r.exc # "none" THEN NotParsed(r.exc)
                      ELSE IF Len(r.vals) = 0 THEN NotParsed("syntax_error")
                      ELSE [par |-> [type |-> type, name |-> tokens[2], value |-> r.vals],
                            toks |-> r.toks, exc |-> "none"]

\* the names each handler loop knows, with the types its checks let pass
CameraParameters ==
    [name \in {"frameaspectratio", "lensradius", "focaldistance", "fov"} |-> {"float"}]

TrianglemeshParameters ==
    ("indices" :> {"integer"}) @@ ("P" :> {"point3"}) @@ ("N" :> {"normal3"})
        @@ ("uv" :> {"float"})

\* if (par.type.compare(...)) throw_syntax_error, for the names the loop knows
TypeRejected(known, p) == p.name \in DOMAIN known /\ p.type \notin known[p.name]

\* the inputs: a parameter, or Transform with its list, then the next directive
\* or the end of the input
MatrixFloats ==
    <<"1", "0", "0", "0",  "0", "1", "0", "0",  "0", "0", "1", "0",  "1", "0", "0", "1">>

Numbers(n) ==
    [i \in 1..n |-> Lexeme("NUMBER", IF i <= 16 THEN MatrixFloats[i] ELSE "0")]

Bracketed(vs) == <<Lexeme("SINGLETON", "[")>> \o vs \o <<Lexeme("SINGLETON", "]")>>

OtherLists ==
          {<<Lexeme("NUMBER", "1")>>, <<Lexeme("STRING", "x")>>,
              <<Lexeme("STRING", "true")>>, Bracketed(<<Lexeme("STRING", "x")>>),
              Bracketed(<<Lexeme("NUMBER", "1"), Lexeme("STRING", "x")>>),
              <<Lexeme("SINGLETON", "["), Lexeme("NUMBER", "1")>>}

\* the lists of a parameter are short, the lists of Transform go past 16 floats
ParameterLists == {Bracketed(Numbers(n)) : n \in 0..(MaxFloats \div 4)} \cup OtherLists

TransformLists == {Bracketed(Numbers(n)) : n \in 0..MaxFloats} \cup OtherLists

InputEnds == {<<>>, <<Lexeme("IDENTIFIER", "WorldEnd")>>}

ParameterKinds ==
    {"float", "integer", "string", "bool", "point", "normal", "rgb", "vector", "kind"}

ParameterNames == {"fov", "indices", "filename"}

ParameterInputs ==
    {<<Lexeme("STRING", <<k, " ", n>>)>> \o v \o e :
        k \in ParameterKinds, n \in ParameterNames, v \in ParameterLists, e \in InputEnds}

TransformInputs ==
    {<<Lexeme("IDENTIFIER", "Transform")>> \o v \o e : v \in TransformLists, e \in InputEnds}

\* a handler starts on the lexemes toks, current_token() first; stream holds
\* the lexemes of the handler at work, as written in the input
ParameterRead(name, toks) ==
    /\ Running
    /\ budget > 0
    /\ budget' = budget - 1
    /\ op' = name
    /\ arg' = ""
    /\ stream' = toks
    /\ UNCHANGED <<definedObjs, atObjectBegin, madeBeforeWorld, opened, following, ply, sceneWideVars, declaredVars, lexerVars,
                   files, lexers>>

\* one turn of a loop while (current_token is no identifier) { parse_parameter;
\* the checks of the names the loop knows }
ParameterLoop(known, toks) ==
    LET r == parse_parameter(toks)
    IN  /\ par' = r.par
        /\ phase' = IF r.exc # "none" THEN r.exc
                    ELSE IF TypeRejected(known, r.par) THEN "syntax_error"
                    ELSE phase

\* execute_Camera, one turn of its loop
camera_parameter(toks) ==
    /\ phase = "preworld"
    /\ ParameterRead("Camera", toks)
    /\ ParameterLoop(CameraParameters, toks)
    /\ UNCHANGED <<parserVars, historyVars>>

\* parse_trianglemesh, one turn of its loop
trianglemesh_parameter(toks) ==
    /\ phase = "world"
    /\ ParameterRead("trianglemesh", toks)
    /\ LET r == parse_parameter(toks)
       IN  /\ par' = r.par
           /\ phase' = IF r.exc # "none" THEN r.exc
                       ELSE IF TypeRejected(TrianglemeshParameters, r.par)
                       THEN "syntax_error"
                       ELSE IF r.par.name = "indices" /\ Len(r.par.value) % 3 # 0
                       THEN "syntax_error"
                       ELSE phase
    /\ UNCHANGED <<parserVars, historyVars>>

\* execute_Shape, "plymesh": the parameter must be named filename; its value is
\* read as a std::vector<std::string> whatever its type, which is undefined for
\* any other type: the run dies, or parse_ply fails on the path read
plymesh_parameter(toks) ==
    /\ phase = "world"
    /\ ParameterRead("plymesh", toks)
    /\ LET r == parse_parameter(toks)
       IN  /\ par' = r.par
           /\ IF r.exc # "none" THEN phase' = r.exc /\ UNCHANGED ub
              ELSE IF r.par.name # "filename" THEN phase' = "syntax_error" /\ UNCHANGED ub
              ELSE IF r.par.type # "string"
              THEN ub' = TRUE /\ phase' \in {"crashed", "syntax_error"}
              ELSE UNCHANGED <<phase, ub>>
    /\ UNCHANGED <<parserVars, openBlocks, ctmAtWorldBegin, worldXf>>

\* nCTM.x = vals[0], ... : the matrix of four columns
mat4f(vals) ==
    [s |-> LET k == IF vals[1][1] # 0 THEN vals[1][1] ELSE vals[1][2]
           IN  IF k < 0 THEN 0 - k ELSE k,
     r |-> IF vals[1][1] > 0 THEN 0 ELSE IF vals[1][2] > 0 THEN 1
           ELSE IF vals[1][1] < 0 THEN 2 ELSE 3,
     t |-> <<vals[4][1], vals[4][2], vals[4][3]>>]

\* parse_value_array with groups of 4, then if (vals.size() != 4) throw_syntax_error
ReadMatrix(toks) ==
    LET r == parse_value_array(toks, 4, "NUMBER")
    IN  IF r.exc # "none" THEN [exc |-> r.exc, nCTM |-> identity_mat4f]
        ELSE IF Len(r.vals) # 4 THEN [exc |-> "syntax_error", nCTM |-> identity_mat4f]
        ELSE [exc |-> "none", nCTM |-> mat4f(r.vals)]

\* the body execute_Transform and execute_ConcatTransform share; CTM is the
\* matrix the handler assigns to gState.CTM
TransformRead(name, toks, CTM) ==
    /\ ParameterRead(name, toks)
    /\ LET r == ReadMatrix(toks)
       IN  IF r.exc # "none"
           THEN phase' = r.exc /\ UNCHANGED <<gState, worldXf>>
           ELSE /\ gState' = [gState EXCEPT !.CTM = CTM]
                /\ worldXf' = (worldXf \/ phase = "world")
                /\ UNCHANGED phase
    /\ UNCHANGED <<par, stateStack, CTMStack, inObjectDefinition, objName, shapesInObject,
                   scn, mats, shps, sgs, txts, openBlocks, ctmAtWorldBegin, ub>>

\* gState.CTM = nCTM
execute_Transform(toks) == TransformRead("Transform", toks, ReadMatrix(toks).nCTM)

\* gState.CTM = gState.CTM * nCTM
execute_ConcatTransform(toks) ==
    TransformRead("ConcatTransform", toks, MatMul(gState.CTM, ReadMatrix(toks).nCTM))

NextParams ==
    \/ WorldBegin
    \/ \E toks \in ParameterInputs : camera_parameter(toks)
    \/ \E toks \in ParameterInputs : trianglemesh_parameter(toks)
    \/ \E toks \in ParameterInputs : plymesh_parameter(toks)
    \/ \E toks \in TransformInputs : execute_Transform(toks)
    \/ \E toks \in TransformInputs : execute_ConcatTransform(toks)

InitParams == Constructed /\ budget = MaxParams

SpecParams == InitParams /\ [][NextParams]_vars


\* ========================================================================
\* Claims
\* ========================================================================

\* C1: when parse() returns the scene at WorldEnd, the attribute stack and the
\* transform stack are both empty.
C1_BlockBalance == phase = "done" => (stateStack = <<>> /\ CTMStack = <<>>)

\* C2: an AttributeEnd met with an empty attribute stack, and a TransformEnd met
\* with an empty transform stack, raise a syntax error.
C2_UnmatchedEndRaises ==
    [][((op' = "AttributeEnd" /\ stateStack = <<>>)
        \/ (op' = "TransformEnd" /\ CTMStack = <<>>)) => phase' = "syntax_error"]_vars

\* C3: the AttributeEnd that closes an attribute block leaves the graphics state
\* as it was just before the AttributeBegin that opened the block: matrix,
\* current material, area-light state, texture names and material names.
C3_AttributeEndRestores ==
    [][(op' = "AttributeEnd" /\ HasOpen("attr")) =>
          LET before == openBlocks[LastOpen("attr")].snap
          IN  /\ gState'.CTM = before.CTM
              /\ gState'.mat = before.mat
              /\ gState'.alInfo = before.alInfo
              /\ gState'.nameToTexture = before.nameToTexture
              /\ gState'.nameToMaterial = before.nameToMaterial]_vars

\* C3 witness: an AttributeEnd has just brought back the initial state although a
\* texture was declared and a material using it was made inside the block.
C3_Witness ==
    /\ op = "AttributeEnd" /\ ~ub /\ phase = "world"
    /\ gState = InitGState
    /\ \E m \in 1..Len(mats) : mats[m].kd_txt # 0

\* C4 (as claimed): every AttributeEnd / TransformEnd that is parsed without error
\* closes the block opened last, whichever kind that block is.
C4_CrossKindLIFO ==
    [][(op' \in {"AttributeEnd", "TransformEnd"} /\ phase' = "world" /\ ~ub') =>
          /\ openBlocks # <<>>
          /\ Last(openBlocks).kind = (IF op' = "AttributeEnd" THEN "attr" ELSE "xf")]_vars

\* C4 (amended): blocks nest last-in-first-out per kind.  The attribute stack
\* holds exactly the states saved by the open attribute blocks, oldest first,
\* and the transform stack the matrices saved by the open transform blocks, so
\* an End closes the latest open block of its own kind.
C4_PerKindLIFO ==
    /\ stateStack = [i \in 1..Len(OpenOfKind("attr")) |-> OpenOfKind("attr")[i].snap]
    /\ CTMStack = [i \in 1..Len(OpenOfKind("xf")) |-> OpenOfKind("xf")[i].snap]

\* C4 witness: an AttributeEnd went through without error while a transform
\* block opened inside the attribute block is still open.
C4_Witness ==
    /\ op = "AttributeEnd" /\ ~ub /\ phase = "world"
    /\ \E i \in 1..Len(openBlocks) : openBlocks[i].kind = "xf" /\ openBlocks[i].level > i - 1

\* C5 (as claimed): after Translate 1 0 0, Translate 0 2 0 and WorldBegin, a
\* trianglemesh Shape inside an attribute block gets an instance whose frame
\* origin is (1,2,0).
C5_PreWorldCTMCarries ==
    (/\ op = "Shape" /\ arg = "trianglemesh" /\ ~inObjectDefinition
     /\ stateStack # <<>> /\ ~worldXf /\ ctmAtWorldBegin.t = <<1, 2, 0>>)
    => (scn.instances # <<>> /\ origin(Last(scn.instances).frame) = <<1, 2, 0>>)

\* C5 (amended): WorldBegin resets the current matrix to the identity.  Whatever
\* was accumulated before WorldBegin, a trianglemesh Shape declared in the world
\* phase before any world-phase transformation yields one more shape-group, of
\* one shape, and one more instance, whose frame is the identity (origin (0,0,0)).
C5_WorldBeginResetsCTM ==
    (/\ op = "Shape" /\ arg = "trianglemesh" /\ ~inObjectDefinition
     /\ phase = "world" /\ ~worldXf)
    => /\ scn.instances # <<>>
       /\ Last(scn.instances).frame = mat_to_frame(identity_mat4f)
       /\ scn.shapes # <<>>
       /\ Last(scn.instances).shp = Last(scn.shapes)
       /\ Len(sgs[Last(scn.shapes)].shapes) = 1

\* C5 witness: the scenario of the claim, with the instance at the origin.
C5_Witness ==
    /\ op = "Shape" /\ arg = "trianglemesh" /\ stateStack # <<>> /\ ~worldXf
    /\ ctmAtWorldBegin.t = <<1, 2, 0>>
    /\ Len(scn.shapes) = 1 /\ Len(scn.instances) = 1
    /\ origin(scn.instances[1].frame) = <<0, 0, 0>>

\* how many times x is in list
Occurrences(list, x) == Cardinality({i \in 1..Len(list) : list[i] = x})

\* the places of the scene's shape list whose shape_group holds shape s
HoldersIn(scene, groups, s) ==
    {i \in 1..Len(scene.shapes) :
        \E k \in 1..Len(groups[scene.shapes[i]].shapes) :
            groups[scene.shapes[i]].shapes[k] = s}

C7_InSceneOnlyWhenInstantiated ==
    \A s \in 1..Len(shps) :
        (shps[s].inObject /\ HoldersIn(scn, sgs, s) # {}) =>
            \E j \in 1..Len(scn.instances) :
                \E k \in 1..Len(sgs[scn.instances[j].shp].shapes) :
                    sgs[scn.instances[j].shp].shapes[k] = s

\* a material has the texture as its Kd texture
Referenced(t) == \E m \in 1..Len(mats) : mats[m].kd_txt = t

\* C8: when parse() returns the scene, a texture declared with Texture is in the
\* scene's texture list once if a material references it, and not at all if none
\* does.
C8_TextureCommitment ==
    phase = "done" =>
        \A t \in 1..Len(txts) :
            txts[t].by = "Texture" =>
                Occurrences(scn.textures, t) = (IF Referenced(t) THEN 1 ELSE 0)

C10_ObjectFoundAfterAttributeEnd ==
    [][(op' = "ObjectInstance" /\ arg' \in definedObjs /\ ~ub) =>
          phase' # "syntax_error"]_vars

\* the names of the entities in a list of the scene are pairwise distinct
DistinctNames(list, heap) ==
    \A i, j \in 1..Len(list) : i # j => heap[list[i]].name # heap[list[j]].name

\* C11: the names of the shape groups, of the instances, of the materials and of
\* the textures added to the scene are pairwise distinct, kind by kind.
C11_IdentifiersDistinct ==
    /\ DistinctNames(scn.shapes, sgs)
    /\ \A i, j \in 1..Len(scn.instances) :
          i # j => scn.instances[i].name # scn.instances[j].name
    /\ DistinctNames(scn.materials, mats)
    /\ DistinctNames(scn.textures, txts)

\* ---- the numeric grammar, stated without the automaton --------------------
Count(w, chars) == Cardinality({i \in 1..Len(w) : w[i] \in chars})

\* digits with at most one '.', at least one digit
IsMantissa(w) ==
    /\ \A i \in 1..Len(w) : w[i] \in Digits \cup {"."}
    /\ Count(w, {"."}) <= 1
    /\ Count(w, Digits) >= 1

\* nothing, or 'e' / 'E', an optional sign and at least one digit
IsExponent(w) ==
    \/ w = <<>>
    \/ /\ Len(w) >= 2
       /\ w[1] \in {"e", "E"}
       /\ LET ds == IF w[2] \in {"+", "-"} THEN SubSeq(w, 3, Len(w))
                    ELSE SubSeq(w, 2, Len(w))
          IN  ds # <<>> /\ \A i \in 1..Len(ds) : ds[i] \in Digits

IsNumber(w) ==
    \E i \in 0..1, j \in 0..Len(w) :
        /\ i <= j
        /\ i = 1 => (w # <<>> /\ w[1] \in {"+", "-"})
        /\ IsMantissa(SubSeq(w, i + 1, j))
        /\ IsExponent(SubSeq(w, j + 1, Len(w)))

\* w can be continued to a number (one more digit is enough whenever any
\* continuation is)
BeginsNumber(w) == IsNumber(w) \/ IsNumber(Append(w, "1"))

\* the longest prefix of w that can be continued to a number
LongestNumberPrefix(w) ==
    LET k == CHOOSE n \in 0..Len(w) :
                 /\ BeginsNumber(SubSeq(w, 1, n))
                 /\ \A m \in (n + 1)..Len(w) : ~BeginsNumber(SubSeq(w, 1, m))
    IN  SubSeq(w, 1, k)

MalformedNumbers ==
    {<<"1", ".", ".", "2">>, <<".", "e", "3">>, <<"1", "e">>, <<"+", "-", "1">>}

RejectedNumbers == {<<".", "e", "3">>, <<"1", "e">>, <<"+", "-", "1">>}

\* C12 (as claimed): each of "1..2", ".e3", "1e" and "+-1" is rejected with a
\* lexical error: the lexer returns no lexeme from a text that starts with it.
C12_RejectsMalformed ==
    \A bad \in MalformedNumbers : source = Append(bad, "\n") => lexemes = <<>>

\* C12 (amended): when the next character can start a number, next_lexeme reads
\* the longest prefix of the rest of the text that can be continued to a number
\* of the grammar; it returns that prefix as a NUMBER if it is a number of the
\* grammar and raises a lexical error otherwise.  ".e3", "1e" and "+-1" raise the
\* error; "1..2" does not: "1." is returned.
C12_NumberRecognizer ==
    [][LET L == remove_blanks(lexer)
           rest == SubSeq(L.text, L.currentPos + 1, Len(L.text))
           longest == LongestNumberPrefix(rest)
       IN  (lexer.exc = "none" /\ L.exc = "none"
                /\ (peek(L) \in {"+", "-", "."} \/ isdigit(peek(L)))) =>
               /\ IsNumber(longest) =>
                     /\ lexer'.exc = "none"
                     /\ lexer'.currentLexeme = [type |-> "NUMBER", value |-> longest]
               /\ ~IsNumber(longest) => lexer'.exc = "Lexical"
               /\ (lexemes = <<>>
                      /\ source \in {Append(bad, "\n") : bad \in RejectedNumbers})
                     => lexer'.exc = "Lexical"]_vars

\* C12 witness: "1..2" has been read as the two numbers "1." and ".2".
C12_Witness ==
    /\ source = <<"1", ".", ".", "2", "\n">>
    /\ lexer.exc = "none"
    /\ Len(lexemes) = 2
    /\ lexemes[1].type = "NUMBER" /\ lexemes[1].value = <<"1", ".">>
    /\ lexemes[2].type = "NUMBER" /\ lexemes[2].value = <<".", "2">>

\* w is made of blanks and of comments, each from a '#' to the end of its line
RECURSIVE IsSkipped(_)
IsSkipped(w) ==
    \/ w = <<>>
    \/ w[1] \in Blanks /\ IsSkipped(Tail(w))
    \/ /\ w[1] = "#"
       /\ \E n \in 1..Len(w) :
             /\ w[n] = "\n"
             /\ \A i \in 1..(n - 1) : w[i] # "\n"
             /\ IsSkipped(SubSeq(w, n + 1, Len(w)))

\* the characters of the text a lexeme stands for: a string has its two quotes
SpanOf(lexeme) ==
    IF lexeme.type = "STRING" THEN <<"\"">> \o lexeme.value \o <<"\"">> ELSE lexeme.value

\* C13: the lexemes returned by successive next_lexeme calls are in source order
\* and do not overlap; each is the text between its two positions, and the text
\* between one lexeme and the next (before the first one, from the start) is only
\* blanks and comments: no character is skipped or read twice.
C13_LexicalSoundness ==
    \A k \in 1..Len(lexemes) :
        LET prev == IF k = 1 THEN 0 ELSE lexemes[k - 1].to
            this == lexemes[k]
        IN  /\ prev <= this.from
            /\ this.from < this.to
            /\ this.to <= Len(source)
            /\ IsSkipped(SubSeq(source, prev + 1, this.from))
            /\ SubSeq(source, this.from + 1, this.to) = SpanOf(this)

\* C13 witness: an identifier, a comment and its newline, then a bracket, all
\* returned or skipped.
C13_Witness ==
    /\ lexer.exc = "none"
    /\ Len(lexemes) = 2
    /\ lexemes[1].type = "IDENTIFIER"
    /\ lexemes[2].type = "SINGLETON"
    /\ \E i \in (lexemes[1].to + 1)..lexemes[2].from : source[i] = "#"

\* the lexemes of one line
LineLexemes(item) ==
    CASE item = "Include f" -> <<[type |-> "IDENTIFIER", value |-> IncludeWord],
                                 [type |-> "STRING", value |-> <<"f">>]>>
      [] item = "Include g" -> <<[type |-> "IDENTIFIER", value |-> IncludeWord],
                                 [type |-> "STRING", value |-> <<"g">>]>>
      [] item = "Include" -> <<[type |-> "IDENTIFIER", value |-> IncludeWord]>>
      [] item = "" -> <<>>
      [] item = "1" -> <<[type |-> "NUMBER", value |-> <<"1">>]>>
      [] OTHER -> <<[type |-> "IDENTIFIER", value |-> <<item>>]>>

\* the one logical stream of a file: its lexemes, with the stream of an included
\* file right after the filename that includes it
RECURSIVE LogicalStream(_)
LogicalStream(lines) ==
    IF lines = <<>> THEN <<>>
    ELSE LineLexemes(lines[1])
         \o (IF lines[1] = "Include f" THEN LogicalStream(files.f)
             ELSE IF lines[1] = "Include g" THEN LogicalStream(files.g)
             ELSE <<>>)
         \o LogicalStream(Tail(lines))

IsPrefix(p, w) == Len(p) <= Len(w) /\ SubSeq(w, 1, Len(p)) = p

\* C14: through every Include the parser sees one logical stream: what it has
\* seen so far is the beginning of that stream, the files hold nothing the lexer
\* can refuse, and the end of the stream is signalled exactly when all of it has
\* been seen, with no lexer left.
C14_OneLogicalStream ==
    (phase # "syntax_error" /\ files.main # <<>>) =>
        /\ IsPrefix(stream, LogicalStream(files.main))
        /\ phase # "lexical_error"
        /\ phase = "input_ended" =>
              (stream = LogicalStream(files.main) /\ lexers = <<>>)

\* ---- C15 ---------------------------------------------------------------
\* m is a material a MakeNamedMaterial created and the current state can name
IsNamedMaterial(m) == \E n \in DOMAIN gState.nameToMaterial : gState.nameToMaterial[n] = m

\* C15, as stated: a NamedMaterial of a name that a MakeNamedMaterial gave before
\* WorldBegin selects a material, and the scene's materials list holds that
\* material exactly once.
C15_PreWorldNamedMaterial ==
    [][(op' = "NamedMaterial" /\ arg' \in madeBeforeWorld /\ ~ub) =>
          /\ phase' = "world"
          /\ gState'.mat = gState.nameToMaterial[arg']
          /\ Occurrences(scn'.materials, gState'.mat) = 1]_vars

\* C15, amended: a MakeNamedMaterial before WorldBegin is skipped and creates
\* nothing. A material a MakeNamedMaterial created in the world phase is
\* selected by a NamedMaterial of its name while the name is visible; the
\* Shape that follows gets the current material; the Kd texture of a material
\* is the one it was created with; and the scene's materials list holds a
\* named material exactly once, however often it is selected or used.
C15_NamedMaterial ==
    [][/\ (op' = "MakeNamedMaterial" /\ phase = "preworld") =>
              UNCHANGED <<gState, scn, mats>>
       /\ (op' = "NamedMaterial" /\ arg' \in DOMAIN gState.nameToMaterial) =>
              /\ phase' = "world"
              /\ gState'.mat = gState.nameToMaterial[arg']
              /\ Occurrences(scn'.materials, gState'.mat) = 1
       /\ (op' = "Shape" /\ Len(shps') > Len(shps)) =>
              /\ shps'[Len(shps')].mat = gState.mat
              /\ IsNamedMaterial(gState.mat) =>
                     Occurrences(scn'.materials, gState.mat) = 1
       /\ \A m \in 1..Len(mats) : mats'[m].kd_txt = mats[m].kd_txt]_vars

\* a named material with a Kd texture was selected and two shapes got it
C15_Witness ==
    /\ op = "Shape"
    /\ Len(shps) = 2
    /\ shps[1].mat = shps[2].mat
    /\ IsNamedMaterial(shps[1].mat)
    /\ gState.mat = shps[1].mat
    /\ Occurrences(scn.materials, shps[1].mat) = 1

\* ---- C16 ---------------------------------------------------------------
\* C16: a directive the dispatcher of the phase has no branch for is not an
\* error: the lexemes after it are skipped up to the next identifier, which is
\* the current lexeme when the dispatcher runs next, and neither the graphics
\* state nor the scene changes; the directive a dispatcher executes is the one
\* the current identifier names.
C16_UnknownDirectiveSkipped ==
    [][/\ (AtDirective /\ token.type = "IDENTIFIER" /\ token.value \notin KnownDirectives) =>
              /\ phase' \in {phase, "input_ended"}
              /\ UNCHANGED <<parserVars, historyVars>>
              /\ phase' = phase =>
                     /\ Len(stream') > Len(stream)
                     /\ token'.type = "IDENTIFIER"
                     /\ \A i \in (Len(stream) + 1)..(Len(stream') - 1) :
                            stream'[i].type # "IDENTIFIER"
       /\ op' \in {"WorldBegin", "WorldEnd", "Shape"} => token.value = op']_vars

\* WorldBegin FooBar 1 Shape "cube" WorldEnd produced the cube
C16_Witness ==
    /\ phase = "done"
    /\ stream = <<Lexeme("IDENTIFIER", "WorldBegin"), Lexeme("IDENTIFIER", "FooBar"),
                  Lexeme("NUMBER", "1"), Lexeme("IDENTIFIER", "Shape"),
                  Lexeme("STRING", "cube"), Lexeme("IDENTIFIER", "WorldEnd")>>
    /\ Len(scn.shapes) = 1
    /\ Len(scn.instances) = 1

\* ---- C17 ---------------------------------------------------------------
\* C17: an input with a LookAt, no other transformation before WorldBegin and
\* no Camera directive yields a scene with exactly one camera, whose frame
\* origin is the eye and whose focus is the distance from the eye to the
\* point looked at.
C17_DefaultCamera ==
    (/\ phase = "done"
     /\ lookedAt # <<>>
     /\ ctmAtWorldBegin = translation_mat(lookedAt.eye)
     /\ \A i \in 1..Len(scn.cameras) : scn.cameras[i].by # "Camera") =>
        /\ Len(scn.cameras) = 1
        /\ origin(scn.cameras[1].frame) = lookedAt.eye
        /\ scn.cameras[1].focus = length(VecSub(lookedAt.eye, lookedAt.look))

\* ---- C18 ---------------------------------------------------------------
\* C18: an ObjectBegin met while an object definition is open raises a syntax
\* error, so at most one definition is open; a shape created while it is open
\* is appended to the shapes collected, which nothing else changes, and
\* ObjectEnd registers exactly the shapes collected under the object name and
\* leaves none collected.
C18_ObjectBlock ==
    [][/\ op' = "ObjectBegin" =>
              IF inObjectDefinition
              THEN phase' = "syntax_error"
              ELSE phase' = "world" /\ inObjectDefinition' /\ objName' = arg'
       /\ (op' = "Shape" /\ Len(shps') > Len(shps) /\ inObjectDefinition) =>
              /\ shapesInObject' = Append(shapesInObject, Len(shps'))
              /\ shps'[Len(shps')].inObject
       /\ op' = "ObjectEnd" =>
              /\ inObjectDefinition
              /\ gState'.nameToObject[objName].shapes = shapesInObject
       /\ shapesInObject' # shapesInObject => op' \in {"Shape", "ObjectEnd"}
       /\ ~inObjectDefinition' => shapesInObject' = <<>>]_vars

\* a second ObjectBegin was met after a shape was collected into the open object
C18_Witness ==
    /\ phase = "syntax_error"
    /\ op = "ObjectBegin"
    /\ inObjectDefinition
    /\ objName # arg
    /\ Len(shapesInObject) = 1

\* ---- C19 ---------------------------------------------------------------
\* the kinds spec 4.6 lists for the parameter names of the inputs
parameterToType ==
    ("fov" :> {"float"}) @@ ("indices" :> {"integer"}) @@ ("filename" :> {"string"})

\* C19: once a handler has parsed a parameter whose name is in the registry, a
\* kind outside the allowed set of the name has raised a syntax error, and an
\* allowed kind has given a parameter with a non-empty value list.
C19_ParameterValidation ==
    (/\ op \in {"Camera", "trianglemesh", "plymesh"}
     /\ par # NoParameter
     /\ par.name \in DOMAIN parameterToType) =>
        IF par.type \in parameterToType[par.name]
        THEN par.value # <<>>
        ELSE phase = "syntax_error"

\* ---- C20 ---------------------------------------------------------------
\* the lexemes after the first are a bracketed list of numbers
IsFloatList(toks) ==
    /\ Len(toks) >= 3
    /\ IsSingleton(toks[2], "[")
    /\ \E k \in 3..Len(toks) :
          IsSingleton(toks[k], "]") /\ \A j \in 3..(k - 1) : toks[j].type = "NUMBER"

ClosingBracket(toks) == CHOOSE k \in 3..Len(toks) : IsSingleton(toks[k], "]")

FloatCount(toks) == ClosingBracket(toks) - 3

LexemeFollows(toks) == Len(toks) > ClosingBracket(toks)

HeaderOf(toks) == split(toks[1].value)

ParameterHandlers == {"Camera", "trianglemesh", "plymesh"}

\* a point3, normal3 or rgb parameter with a list of floats not divisible by 3
UnevenTriples ==
    /\ op \in ParameterHandlers
    /\ check_synonym(HeaderOf(stream)[1]) \in {"point3", "normal3", "rgb"}
    /\ IsFloatList(stream)
    /\ FloatCount(stream) % 3 # 0

\* the "indices" of a trianglemesh with a list of length not divisible by 3
UnevenIndices ==
    /\ op = "trianglemesh"
    /\ HeaderOf(stream) = <<"integer", "indices">>
    /\ IsFloatList(stream)
    /\ FloatCount(stream) % 3 # 0

\* Transform or ConcatTransform given anything but exactly 16 floats
NotSixteen ==
    /\ op \in {"Transform", "ConcatTransform"}
    /\ ~(IsFloatList(stream) /\ FloatCount(stream) = 16)

InputCutShort == ~IsFloatList(stream) \/ ~LexemeFollows(stream)

Unread == SubSeq(source, (IF lexemes = <<>> THEN 0 ELSE lexemes[Len(lexemes)].to) + 1,
                 Len(source))

\* w is blanks and comments, then a double quote that no double quote follows
OpensUnterminatedString(w) ==
    \E n \in 1..Len(w) :
        /\ IsSkipped(SubSeq(w, 1, n - 1))
        /\ w[n] = "\""
        /\ \A i \in (n + 1)..Len(w) : w[i] # "\""

\* C21: a call of next_lexeme that meets an opening double quote with no closing
\* double quote before the end of the file ends with a Lexical error, not with
\* the end-of-input exception that makes the parser pop the lexer.
C21_UnterminatedString ==
    (lexer.exc # "none" /\ OpensUnterminatedString(Unread)) => lexer.exc = "Lexical"

\* ---- the path of an included file ----------------------------------------
PathChars == {"c", "1", ":", "/", "\\"}

IncludePaths == TextsOver(PathChars, MaxPathLen)

\* the names PBRTLexer is constructed with for the including file
IncludingFiles ==
    {<<"m">>, <<"d", "/", "m">>, <<"/", "d", "/", "m">>, <<"d", "\\", "c", "\\", "m">>}

\* the lexer of file meets its first Include, with the string path:
\* current_path() is the path its constructor took from get_path_and_filename
include_path(file, path) ==
    /\ opened = NoPath
    /\ opened' = [file |-> file,
                  position |-> get_path_and_filename(file).path,
                  path |-> path,
                  filename |-> concatenate_paths(get_path_and_filename(file).path, path)]
    /\ op' = "Include"
    /\ UNCHANGED <<phase, arg, budget, parserVars, historyVars, definedObjs, atObjectBegin, madeBeforeWorld,
                   following, ply, sceneWideVars, par, declaredVars, lexerVars, includeVars>>

NextPaths == \E file \in IncludingFiles, path \in IncludePaths : include_path(file, path)

InitPaths == Constructed /\ budget = 0

SpecPaths == InitPaths /\ [][NextPaths]_vars

\* ---- C22 ---------------------------------------------------------------
\* the directory part of a file name written with forward slashes
DirectoryOf(file) ==
    IF \A i \in 1..Len(file) : file[i] # "/" THEN <<".">>
    ELSE SubSeq(file, 1, (CHOOSE i \in 1..Len(file) :
                             file[i] = "/" /\ \A j \in (i + 1)..Len(file) : file[j] # "/") - 1)

Slashed(path) == [i \in 1..Len(path) |-> IF path[i] = "\\" THEN "/" ELSE path[i]]

\* letter, ':', separator
DriveQualified(path) ==
    Len(path) >= 3 /\ isalpha(path[1]) /\ path[2] = ":" /\ path[3] \in {"/", "\\"}

\* C22 as stated: the filename opened for a non-empty include path is the path
\* itself, backslashes replaced, when it starts with a separator or is
\* drive-qualified, and <directory of the including file>/<path> otherwise.
C22_IncludePath ==
    (op = "Include" /\ opened.path # <<>>) =>
        opened.filename =
            IF Slashed(opened.path)[1] = "/" \/ DriveQualified(opened.path)
            THEN Slashed(opened.path)
            ELSE DirectoryOf(Slashed(opened.file)) \o <<"/">> \o Slashed(opened.path)

\* any character, ':', separator, and at least one character more
DriveFile(path) == Len(path) > 3 /\ path[2] = ":" /\ path[3] \in {"/", "\\"}

\* C22, amended: every backslash is replaced by a forward slash; a path that
\* then starts with '/', or that has more than three characters with ':' second
\* and '/' third, is used as it is; any other non-empty path, a bare drive root
\* such as "c:/" included, resolves to <directory of the including file>/<path>.
C22_IncludePathLonger ==
    (op = "Include" /\ opened.path # <<>>) =>
        opened.filename =
            IF Slashed(opened.path)[1] = "/" \/ DriveFile(opened.path)
            THEN Slashed(opened.path)
            ELSE DirectoryOf(Slashed(opened.file)) \o <<"/">> \o Slashed(opened.path)

\* C22 witness: c:\c included from d\c\m is opened as c:/c
C22_Witness ==
    /\ op = "Include"
    /\ opened.file = <<"d", "\\", "c", "\\", "m">>
    /\ opened.path = <<"c", ":", "\\", "c">>
    /\ opened.filename = <<"c", ":", "/", "c">>

\* ---- C23 ---------------------------------------------------------------
\* C23: a Shape whose type has no parser adds no shape and no instance and
\* skips its own parameters only: no identifier is among the lexemes passed
\* over, so the directive that follows is the one dispatched next.
C23_UnrecognizedShapeSkipped ==
    [][(/\ AtDirective
        /\ token = Lexeme("IDENTIFIER", "Shape")
        /\ op' = "Shape"
        /\ arg' = "sphere"
        /\ phase' = phase) =>
           /\ scn'.shapes = scn.shapes
           /\ scn'.instances = scn.instances
           /\ token'.type = "IDENTIFIER"
           /\ \A i \in (Len(stream) + 1)..(Len(stream') - 1) :
                  stream'[i].type # "IDENTIFIER"]_vars

\* ---- C24 ---------------------------------------------------------------
\* C24: when ObjectEnd has closed an object block, the current transformation
\* matrix and the rest of the graphics state, the table of the declared
\* objects apart, are those met at its ObjectBegin, and the matrix stored with
\* the object is the matrix that was current when ObjectEnd captured it.
C24_ObjectBlockKeepsState ==
    [][(op' = "ObjectEnd" /\ phase' = "world") =>
           /\ gState'.CTM = atObjectBegin.CTM
           /\ [gState' EXCEPT !.nameToObject = atObjectBegin.nameToObject] = atObjectBegin
           /\ gState'.nameToObject[arg'].CTM = gState.CTM]_vars

\* ---- C25 ---------------------------------------------------------------
\* the texture and material names that resolve in the graphics state g
Resolvable(g) == [txt |-> DOMAIN g.nameToTexture, mat |-> DOMAIN g.nameToMaterial]

\* C25: after an AttributeEnd the names that resolve are those that resolved
\* at the matching AttributeBegin, so a name declared inside the block does not
\* resolve any more; no other directive takes a name away, so a name declared
\* before the block resolves inside it and after it; a NamedMaterial, or the
\* texture reference of a Material, raises a syntax error exactly when its name
\* does not resolve.
C25_BlockScopedNames ==
    [][~ub' =>
          /\ (op' = "AttributeEnd" /\ phase' = "world") =>
                 Resolvable(gState') = Resolvable(openBlocks[LastOpen("attr")].snap)
          /\ (op' # "AttributeEnd" /\ phase' = "world") =>
                 /\ Resolvable(gState).txt \subseteq Resolvable(gState').txt
                 /\ Resolvable(gState).mat \subseteq Resolvable(gState').mat
          /\ op' = "NamedMaterial" =>
                 (phase' = "syntax_error" <=> arg' \notin Resolvable(gState).mat)
          /\ (op' = "Material" /\ arg' # "") =>
                 (phase' = "syntax_error" <=> arg' \notin Resolvable(gState).txt)]_vars

\* C25 witness: an AttributeEnd has closed the block in which the only
\* Texture directive of the input declared its name, and no texture name resolves
C25_Witness ==
    /\ op = "AttributeEnd"
    /\ phase = "world"
    /\ ~ub
    /\ openBlocks = <<>>
    /\ Len(txts) = 1
    /\ txts[1].by = "Texture"
    /\ Resolvable(gState).txt = {}

\* ---- C26 ---------------------------------------------------------------
\* C26: TransformBegin changes nothing of the graphics state and TransformEnd
\* nothing but the matrix, which becomes the one met at the matching
\* TransformBegin: the current material, the area-light state and the texture
\* and material names are those before the TransformEnd, and neither directive
\* touches the attribute stack.
C26_TransformBlockMatrixOnly ==
    [][/\ op' = "TransformBegin" => UNCHANGED <<gState, stateStack>>
       /\ (op' = "TransformEnd" /\ HasOpen("xf") /\ ~ub) =>
              /\ gState'.CTM = openBlocks[LastOpen("xf")].snap
              /\ gState'.mat = gState.mat
              /\ gState'.alInfo = gState.alInfo
              /\ gState'.nameToTexture = gState.nameToTexture
              /\ gState'.nameToMaterial = gState.nameToMaterial
              /\ gState'.nameToObject = gState.nameToObject
              /\ UNCHANGED stateStack]_vars

\* C26 witness: a TransformEnd has brought back the identity after a
\* transformation, and the material a Material directive created is current
C26_Witness ==
    /\ op = "TransformEnd"
    /\ phase = "world"
    /\ ~ub
    /\ worldXf
    /\ gState.CTM = identity_mat4f
    /\ gState.mat = 2
    /\ openBlocks = <<>>

\* ---- the branches of the two dispatchers ---------------------------------
\* the directive names parse_preworld_directives compares the identifier with
PreworldBranches ==
    {"Camera", "Film", "Include", "Translate", "Transform", "ConcatTransform", "Scale",
     "Rotate", "LookAt"}

\* the directive names parse_world_directive compares the identifier with
WorldBranches ==
    {"Include", "Translate", "Transform", "ConcatTransform", "Scale", "Rotate", "LookAt",
     "AttributeBegin", "TransformBegin", "AttributeEnd", "TransformEnd", "Shape",
     "ObjectBegin", "ObjectInstance", "LightSource", "AreaLightSource", "Material",
     "MakeNamedMaterial", "NamedMaterial", "Texture"}

DispatchedInAnyPhase(name) == name \in PreworldBranches \cup WorldBranches

\* the if / else if chain of the dispatcher of the phase has a branch for name
Dispatched(name) ==
    IF phase = "preworld" THEN name \in PreworldBranches ELSE name \in WorldBranches

\* the identifier name is current when the loop of a dispatcher runs: its
\* branch calls the handler, the else branch calls ignore_current_directive
dispatch_directive(name, type) ==
    /\ Consume(name, type)
    /\ IF Dispatched(name)
       THEN CASE name = "Camera" -> CameraParsed
              [] name = "Shape" -> ShapeParsed(type)
       ELSE UNCHANGED <<phase, parserVars, historyVars>>

NextPhases ==
    \/ \E v \in TranslateVecs : execute_Translate(v)
    \/ WorldBegin
    \/ WorldEnd
    \/ dispatch_directive("Camera", "")
    \/ \E type \in ShapeTypes : dispatch_directive("Shape", type)

InitPhases == Constructed /\ budget = MaxSteps

SpecPhases == InitPhases /\ [][NextPhases]_vars

\* ---- C27 ---------------------------------------------------------------
\* C27: a Camera met before WorldBegin adds a camera, and one met after it is
\* skipped and changes nothing; a Shape of a type with a parser met after
\* WorldBegin adds a shape, and a Shape met before it is skipped and changes
\* nothing.
C27_PhaseOrdering ==
    [][/\ (op' = "Camera" /\ phase = "preworld") =>
              Len(scn'.cameras) = Len(scn.cameras) + 1
       /\ (op' = "Camera" /\ phase = "world") =>
              UNCHANGED <<phase, parserVars, historyVars>>
       /\ (op' = "Shape" /\ phase = "preworld") =>
              UNCHANGED <<phase, parserVars, historyVars>>
       /\ (op' = "Shape" /\ arg' = "trianglemesh" /\ phase = "world") =>
              /\ Len(scn'.shapes) = Len(scn.shapes) + 1
              /\ scn'.cameras = scn.cameras]_vars

\* C27 witness: a Camera after WorldBegin has been skipped; the scene has the
\* camera of the Camera before WorldBegin and the shape of the Shape after it
C27_Witness ==
    /\ op = "Camera"
    /\ phase = "world"
    /\ Len(scn.cameras) = 1
    /\ Len(scn.shapes) = 1

\* ---- C28 ---------------------------------------------------------------
\* C28: on a non-empty text the end of the input is signalled only by a call
\* made when every token was returned (what is unread is blanks and comments,
\* or opens a string that is never closed, which is no token), that call
\* returns no token, and every later call signals the end of the input again
\* and returns no token.
C28_EndOfInput ==
    [][source # <<>> =>
         /\ lexer.exc = "none" /\ lexer'.exc = "InputEnded" =>
               /\ lexemes' = lexemes
               /\ IsSkipped(Unread) \/ OpensUnterminatedString(Unread)
         /\ lexer.exc = "InputEnded" => lexer'.exc = "InputEnded" /\ lexemes' = lexemes]_vars

\* the end of the input was signalled after two tokens, the last of which ends
\* right before the final newline
C28_Witness ==
    /\ lexer.exc = "InputEnded"
    /\ Len(lexemes) = 2
    /\ lexemes[2].to = Len(source) - 1
    /\ source[Len(source)] = "\n"

\* ---- C29 ---------------------------------------------------------------
\* the newline characters of text before the offset pos (offsets count from 0)
NewlinesBefore(text, pos) == {i \in 1..pos : text[i] = "\n"}

\* the 1-based index, within its line, of the character at the offset pos
IndexInLine(text, pos) ==
    LET start == IF NewlinesBefore(text, pos) = {} THEN 0
                 ELSE CHOOSE i \in NewlinesBefore(text, pos) :
                          \A j \in NewlinesBefore(text, pos) : j <= i
    IN  pos + 1 - start

\* C29: after the advances of one or more next_lexeme calls over the original
\* text, line is 1 plus the number of newline characters before the current
\* offset, column is the 1-based index of the current character within its
\* line, and both are at least 1.
C29_LineAndColumn ==
    (lexemes # <<>> /\ ~lexer.inputEnded) =>
        /\ lexer.line = 1 + Cardinality(NewlinesBefore(source, lexer.currentPos))
        /\ lexer.column = IndexInLine(source, lexer.currentPos)
        /\ lexer.line >= 1
        /\ lexer.column >= 1

\* ---- parse_value (src/src/PBRTParser.h) -----------------------------------
\* parse_value reads the lexemes advance() shows: toks[1] is current_token()
\* and advance() drops it, or throws InputEndedException when none is left.
Returned(vals, toks) == [vals |-> vals, toks |-> toks, exc |-> "none"]

\* while (current_token().type == LT) { push_back; advance(); if (!isArray) break; }
RECURSIVE value_loop(_, _, _, _)
value_loop(toks, LT, isArray, vals) ==
    IF toks[1].type # LT THEN Returned(vals, toks)
    ELSE LET read == Append(vals, convert2(LT, toks[1].value))
         IN  IF Tail(toks) = <<>> THEN Thrown3("input_ended")
             ELSE IF ~isArray THEN Returned(read, Tail(toks))
             ELSE value_loop(Tail(toks), LT, isArray, read)

\* current_token().value == "[" : the value of the lexeme, whatever its type
OpensArray(lex) == lex.value = "["

\* PBRTParser::parse_value<T, LT, _CONVERTER>, called with an empty vector
parse_value(toks, LT) ==
    LET isArray == OpensArray(toks[1])
        r == IF ~isArray THEN value_loop(toks, LT, FALSE, <<>>)
             ELSE IF Tail(toks) = <<>> THEN Thrown3("input_ended")
             ELSE value_loop(Tail(toks), LT, TRUE, <<>>)
        closed == IF r.exc # "none" \/ ~isArray THEN r
                  ELSE IF r.toks[1].value # "]" THEN Thrown3("syntax_error")
                  ELSE IF Tail(r.toks) = <<>> THEN Thrown3("input_ended")
                  ELSE [r EXCEPT !.toks = Tail(r.toks)]
    IN  IF closed.exc # "none" THEN closed
        ELSE IF Len(closed.vals) = 0 THEN Thrown3("syntax_error")
        ELSE closed

\* the lexemes the calls are made on
ValueLexemes ==
    {Lexeme("NUMBER", "1"), Lexeme("STRING", "x"), Lexeme("STRING", "["),
     Lexeme("STRING", "]"), Lexeme("SINGLETON", "["), Lexeme("SINGLETON", "]"),
     Lexeme("IDENTIFIER", "Shape")}

RECURSIVE LexemesOver(_)
LexemesOver(n) ==
    IF n = 0 THEN {<<>>}
    ELSE LET shorter == LexemesOver(n - 1)
         IN  shorter \cup {Append(w, l) : w \in {v \in shorter : Len(v) = n - 1},
                                          l \in ValueLexemes}

ValueInputs == LexemesOver(MaxValueLen) \ {<<>>}

\* a handler calls parse_value<T, LT> on the lexemes toks, once
value_parameter(toks, LT) ==
    /\ stream = <<>>
    /\ stream' = toks
    /\ op' = "parse_value"
    /\ LET r == parse_value(toks, LT)
       IN  /\ par' = [type |-> LT, name |-> "", value |-> r.vals]
           /\ following' = r.toks
           /\ phase' = IF r.exc # "none" THEN r.exc ELSE phase
    /\ UNCHANGED <<arg, budget, parserVars, historyVars, definedObjs, atObjectBegin,
                   madeBeforeWorld, opened, ply, sceneWideVars, declaredVars, lexerVars,
                   files, lexers>>

NextValues == \E toks \in ValueInputs, LT \in {"NUMBER", "STRING"} : value_parameter(toks, LT)

InitValues == Constructed /\ budget = 0

SpecValues == InitValues /\ [][NextValues]_vars

\* ---- C30 ---------------------------------------------------------------
\* the number of lexemes of the type LT in a row in toks, from the index i on
RECURSIVE RunOf(_, _, _)
RunOf(toks, LT, i) ==
    IF i > Len(toks) \/ toks[i].type # LT THEN 0 ELSE 1 + RunOf(toks, LT, i + 1)

\* C30: after a parse_value call during which the input did not end: a list
\* that opens with '[' and holds no lexeme of the expected type has raised a
\* syntax error; a list that opens with '[' and has no ']' right after its
\* values has raised a syntax error; a call that succeeded on a value without
\* '[' has advanced past one lexeme; a call that succeeded has read at least
\* one value and its current lexeme is the one after the value, or after the
\* ']'.
C30_ParseValue ==
    LET bracketed == IsSingleton(stream[1], "[")
        n == RunOf(stream, par.type, 2)
        closed == n + 2 <= Len(stream) /\ IsSingleton(stream[n + 2], "]")
    IN  (op = "parse_value" /\ phase # "input_ended") =>
            /\ (bracketed /\ n = 0) => phase = "syntax_error"
            /\ (bracketed /\ ~closed) => phase = "syntax_error"
            /\ (~bracketed /\ Running) => following = Tail(stream)
            /\ Running =>
                  /\ par.value # <<>>
                  /\ following = SubSeq(stream, IF bracketed THEN n + 3 ELSE 2, Len(stream))

\* ---- the transformation directives on their own ---------------------------
NextTransforms ==
    \/ \E v \in TranslateVecs : execute_Translate(v)
    \/ \E k \in ScaleFactors : execute_Scale(k)
    \/ \E a \in RotateArgs : execute_Rotate(a)
    \/ \E toks \in TransformInputs : execute_Transform(toks)
    \/ \E toks \in TransformInputs : execute_ConcatTransform(toks)

InitTransforms == Constructed /\ budget = MaxXfSteps

SpecTransforms == InitTransforms /\ [][NextTransforms]_vars

\* ---- C31 ---------------------------------------------------------------
\* the points a matrix of the group is told by: the origin and the unit points
SamplePoints == {<<0, 0, 0>>, <<1, 0, 0>>, <<0, 1, 0>>, <<0, 0, 1>>}

\* the image of the point p under the matrix M
Image(M, p) ==
    <<M.t[1] + M.s * Turned(p, M.r)[1], M.t[2] + M.s * Turned(p, M.r)[2],
      M.t[3] + M.s * Turned(p, M.r)[3]>>

\* the image of p under the 4x4 matrix whose columns are the 16 numbers f, in
\* the order they are written
Image16(f, p) ==
    [i \in 1..3 |-> p[1] * f[i] + p[2] * f[4 + i] + p[3] * f[8 + i] + f[12 + i]]

\* the numbers written in the list of the Transform or ConcatTransform at work
Written == [i \in 1..16 |-> atof(stream[i + 2].value)]

\* what the matrices a directive named name may stand for do to the points
DirectiveMaps(name) ==
    CASE name = "Translate" ->
             {[p \in SamplePoints |-> <<p[1] + v[1], p[2] + v[2], p[3] + v[3]>>] :
                 v \in TranslateVecs}
      [] name = "Scale" ->
             {[p \in SamplePoints |-> <<k * p[1], k * p[2], k * p[3]>>] : k \in ScaleFactors}
      [] name = "Rotate" -> {[p \in SamplePoints |-> <<0 - p[2], p[1], p[3]>>]}
      [] OTHER -> {[p \in SamplePoints |-> Image16(Written, p)]}

\* C31: a Translate, Scale, Rotate or ConcatTransform that succeeds leaves the
\* current matrix equal to (matrix before) x M, M the matrix of the directive:
\* the new matrix sends every point p where the old one sends M(p); hence A
\* then B give CTM0 x A x B. A Transform that succeeds leaves the matrix of its
\* 16 numbers, whatever the matrix before.
C31_PostMultiplication ==
    [][(budget' < budget /\ Running') =>
           /\ op' \in {"Translate", "Scale", "Rotate", "ConcatTransform"} =>
                 \E M \in DirectiveMaps(op)' :
                     \A p \in SamplePoints : Image(gState'.CTM, p) = Image(gState.CTM, M[p])
           /\ op' = "Transform" =>
                 \A p \in SamplePoints : Image(gState'.CTM, p) = Image16(Written, p)']_vars

\* C31 witness: Translate 1 0 0, then Scale 2, then Rotate 90 0 0 1: the
\* matrix is T x S x R, which sends (1, 0, 0) to (1, 2, 0)
C31_Witness ==
    /\ op = "Rotate"
    /\ budget = MaxXfSteps - 3
    /\ Image(gState.CTM, <<0, 0, 0>>) = <<1, 0, 0>>
    /\ Image(gState.CTM, <<1, 0, 0>>) = <<1, 2, 0>>

\* ---- Film ---------------------------------------------------------------
\* the loop of execute_Film over its parameters: xres and yres are the values
\* read so far, 0 at the start
RECURSIVE film_loop(_, _, _)
film_loop(toks, xres, yres) ==
    IF toks[1].type = "IDENTIFIER" THEN [xres |-> xres, yres |-> yres, exc |-> "none"]
    ELSE LET r == parse_parameter(toks)
         IN  IF r.exc # "none" THEN [xres |-> xres, yres |-> yres, exc |-> r.exc]
             ELSE IF r.par.name \in {"xresolution", "yresolution"} /\ r.par.type # "integer"
             THEN [xres |-> xres, yres |-> yres, exc |-> "syntax_error"]
             ELSE IF r.par.name = "xresolution" THEN film_loop(r.toks, r.par.value[1], yres)
             ELSE IF r.par.name = "yresolution" THEN film_loop(r.toks, xres, r.par.value[1])
             ELSE film_loop(r.toks, xres, yres)

\* defaultAspect = ((float) xres) / ((float) yres)
FilmAspect(xres, yres) == Ratio(xres, yres)

\* the lexemes of a Film directive: the type, the resolutions given, and the
\* identifier of the next directive
Resolution(name, v) == <<Lexeme("STRING", <<"integer", " ", name>>), Lexeme("NUMBER", v)>>

FilmValues == {"0", "1", "2"}

FilmParameterLists ==
    {<<>>} \cup {Resolution("xresolution", x) : x \in FilmValues}
           \cup {Resolution("yresolution", y) : y \in FilmValues}
           \cup {Resolution("xresolution", x) \o Resolution("yresolution", y) :
                    x \in FilmValues, y \in FilmValues}

FilmInputs ==
    {<<Lexeme("IDENTIFIER", "Film"), Lexeme("STRING", "image")>> \o ps
         \o <<Lexeme("IDENTIFIER", "Camera")>> : ps \in FilmParameterLists}

\* PBRTParser::execute_Film on the lexemes toks
execute_Film(toks) ==
    /\ phase = "preworld"
    /\ budget > 0
    /\ budget' = budget - 1
    /\ op' = "Film"
    /\ arg' = ""
    /\ stream' = toks
    /\ LET r == film_loop(Tail(Tail(toks)), 0, 0)
       IN  IF r.exc # "none"
           THEN phase' = r.exc /\ UNCHANGED <<defaultAspect, scn>>
           ELSE IF r.xres # 0 /\ r.yres # 0
           THEN /\ defaultAspect' = FilmAspect(r.xres, r.yres)
                /\ scn' = [scn EXCEPT !.cameras =
                               [i \in DOMAIN @ |-> [@[i] EXCEPT !.aspect = defaultAspect']]]
                /\ UNCHANGED phase
           ELSE UNCHANGED <<phase, defaultAspect, scn>>
    /\ UNCHANGED <<gState, stateStack, CTMStack, inObjectDefinition, objName, shapesInObject,
                   mats, shps, sgs, txts, historyVars, definedObjs, atObjectBegin,
                   madeBeforeWorld, opened, following, ply, defaultFocus, lookedAt, par,
                   declaredVars, lexerVars, files, lexers>>

NextFilm ==
    \/ execute_Camera
    \/ \E toks \in FilmInputs : execute_Film(toks)

InitFilm == Constructed /\ budget = MaxFilmSteps

SpecFilm == InitFilm /\ [][NextFilm]_vars

\* ---- C32 ---------------------------------------------------------------
\* the value the Film at work gives for the resolution name, 0 when it gives none
Given(name) ==
    LET at == {i \in 3..(Len(stream) - 1) :
                  /\ stream[i].type = "STRING"
                  /\ stream[i].value = <<"integer", " ", name>>}
    IN  IF at = {} THEN 0 ELSE atof(stream[(CHOOSE i \in at : TRUE) + 1].value)

\* the fraction f is max(1, x / y)
IsClampedRatio(f, x, y) == IF x < y THEN f.n = f.d ELSE f.n * y = f.d * x

\* C32: a Film with both resolutions present and non-zero sets the default
\* aspect to max(1, xresolution / yresolution) and gives it to every camera
\* created before; a Film with a resolution missing or zero changes no aspect;
\* a camera created by Camera starts from the default aspect.
C32_FilmAspect ==
    [][(budget' < budget /\ Running') =>
           /\ op' = "Film" =>
                 IF Given("xresolution")' # 0 /\ Given("yresolution")' # 0
                 THEN /\ IsClampedRatio(defaultAspect', Given("xresolution")',
                                        Given("yresolution")')
                      /\ Len(scn'.cameras) = Len(scn.cameras)
                      /\ \A i \in 1..Len(scn'.cameras) :
                            scn'.cameras[i].aspect = defaultAspect'
                 ELSE defaultAspect' = defaultAspect /\ scn'.cameras = scn.cameras
           /\ op' = "Camera" =>
                 scn'.cameras[Len(scn'.cameras)].aspect = defaultAspect]_vars

\* ---- C33 ---------------------------------------------------------------
\* C33: the material of every shape the parser has created is in the materials
\* list of the scene (a shape declared with no Material or NamedMaterial before
\* it has a fresh material, which was added to the list).
C33_ShapeMaterialInScene ==
    \A i \in 1..Len(shps) : \E j \in 1..Len(scn.materials) : scn.materials[j] = shps[i].mat

\* ---- the mesh loader (src/src/PLYParser.cpp) ------------------------------
\* A line of the file is the sequence of its words, what split(line, " \r\n")
\* returns; the body of a binary file is a sequence of bytes. The stream is the
\* index of the next line, the offset of the next byte and its state (good).
atoi(x) == CASE x = "1" -> 1 [] x = "2" -> 2 [] x = "3" -> 3 [] x = "4" -> 4 [] OTHER -> 0

\* ygl::startswith(line, word), on the lines of the files below
startswith(line, word) == line # <<>> /\ line[1] = word

\* ygl::contains(line, word)
contains(line, word) == \E i \in 1..Len(line) : line[i] = word

\* std::getline(plyFile, line): a stream that is not good leaves line as it is;
\* at the end of the file line is erased and the stream fails
getline(p) ==
    IF ~p.good THEN p
    ELSE IF p.next > Len(p.file.lines) THEN [p EXCEPT !.good = FALSE, !.line = <<>>]
    ELSE [p EXCEPT !.line = p.file.lines[p.next], !.next = @ + 1]

\* one more turn of the loop that reads the header (history: its parity)
Turn(p) == [p EXCEPT !.lap = 1 - @]

Failed(p) == [p EXCEPT !.pc = "returned", !.ret = "false"]

\* the little-endian bytes of the floats and ints the files hold
FloatBytes(x) ==
    CASE x = 0 -> <<0, 0, 0, 0>>
      [] x = 1 -> <<0, 0, 128, 63>>
      [] x = 2 -> <<0, 0, 0, 64>>

IntBytes(n) == <<n % 256, (n \div 256) % 256, 0, 0>>

\* *((float *) buff) and *((int *) buff)
float_of(buff) == CHOOSE x \in 0..2 : FloatBytes(x) = buff

int_of(buff) == buff[1] + 256 * buff[2]

\* plyFile.read(buff, n) at the offset p.at
read(p, n) == SubSeq(p.file.bytes, p.at + 1, p.at + n)

\* ygl::vec3f pos, norm; ygl::vec2f uv; and the three flags
NoVertex ==
    [pos |-> <<0, 0, 0>>, norm |-> <<0, 0, 0>>, uv |-> <<0, 0>>,
     bpos |-> FALSE, bnorm |-> FALSE, buv |-> FALSE, known |-> TRUE]

\* pos.x = ..., norm.x = ..., uv.x = ... ; a name outside the eight is not known
Assigned(vtx, prop, x) ==
    CASE prop = "x" -> [vtx EXCEPT !.pos[1] = x]
      [] prop = "y" -> [vtx EXCEPT !.pos[2] = x]
      [] prop = "z" -> [vtx EXCEPT !.pos[3] = x]
      [] prop = "nx" -> [vtx EXCEPT !.norm[1] = x]
      [] prop = "ny" -> [vtx EXCEPT !.norm[2] = x]
      [] prop = "nz" -> [vtx EXCEPT !.norm[3] = x]
      [] prop = "u" -> [vtx EXCEPT !.uv[1] = x]
      [] prop = "v" -> [vtx EXCEPT !.uv[2] = x]
      [] OTHER -> [vtx EXCEPT !.known = FALSE]

\* the flags the ASCII branch sets: bpos = true at "x"
ascii_flags(vtx, prop) == IF prop = "x" THEN [vtx EXCEPT !.bpos = TRUE] ELSE vtx

\* the flags the binary branch sets: bpos at "x", bnorm at "nx", buv at "u"
binary_flags(vtx, prop) ==
    CASE prop = "x" -> [vtx EXCEPT !.bpos = TRUE]
      [] prop = "nx" -> [vtx EXCEPT !.bnorm = TRUE]
      [] prop = "u" -> [vtx EXCEPT !.buv = TRUE]
      [] OTHER -> vtx

\* for (auto prop : vertex_prop), ASCII: vals are the words of the line
RECURSIVE ascii_vertex(_, _, _, _)
ascii_vertex(props, i, vals, vtx) ==
    IF i > Len(props) \/ ~vtx.known THEN vtx
    ELSE ascii_vertex(props, i + 1, vals,
                      IF props[i] \in {"x", "y", "z", "nx", "ny", "nz", "u", "v"}
                      THEN ascii_flags(Assigned(vtx, props[i], atof(vals[i])), props[i])
                      ELSE Assigned(vtx, props[i], 0))

\* for (auto prop : vertex_prop), binary: four bytes for each property
RECURSIVE binary_vertex(_, _, _, _)
binary_vertex(props, i, p, vtx) ==
    IF i > Len(props) \/ ~vtx.known THEN [vtx |-> vtx, p |-> p]
    ELSE IF props[i] \in {"x", "y", "z", "nx", "ny", "nz", "u", "v"}
    THEN binary_vertex(props, i + 1, [p EXCEPT !.at = @ + 4],
                       binary_flags(Assigned(vtx, props[i], float_of(read(p, 4))), props[i]))
    ELSE binary_vertex(props, i + 1, p, Assigned(vtx, props[i], 0))

\* shp->pos.push_back(pos); if (bnorm) ...; if (buv) ...
Pushed(shape, vtx) ==
    [shape EXCEPT !.pos = Append(@, vtx.pos),
                  !.norm = IF vtx.bnorm THEN Append(@, vtx.norm) ELSE @,
                  !.texcoord = IF vtx.buv THEN Append(@, vtx.uv) ELSE @]

\* for (int v = 0; v < n_vertices; v++)
RECURSIVE read_vertices(_, _)
read_vertices(p, v) ==
    IF v >= p.n_vertices THEN p
    ELSE LET q == IF p.is_asc THEN getline(p) ELSE p
             r == IF p.is_asc
                  THEN [vtx |-> ascii_vertex(p.vertex_prop, 1, q.line, NoVertex), p |-> q]
                  ELSE binary_vertex(p.vertex_prop, 1, q, NoVertex)
         IN  IF ~r.vtx.known \/ ~r.vtx.bpos THEN Failed(r.p)
             ELSE read_vertices([r.p EXCEPT !.shape = Pushed(@, r.vtx)], v + 1)

\* for (int f = 0; f < n_faces; f++)
RECURSIVE read_faces(_, _)
read_faces(p, f) ==
    IF f >= p.n_faces THEN p
    ELSE IF p.is_asc
    THEN LET q == getline(p)
         IN  IF q.line[1] # "3" THEN Failed(q)
             ELSE read_faces([q EXCEPT !.shape.triangles =
                                 Append(@, <<atoi(q.line[2]), atoi(q.line[3]),
                                             atoi(q.line[4])>>)], f + 1)
    ELSE IF read(p, 1)[1] # 3 THEN Failed([p EXCEPT !.at = @ + 1])
    ELSE read_faces([p EXCEPT !.at = @ + 13,
                              !.shape.triangles =
                                  Append(@, <<int_of(SubSeq(p.file.bytes, p.at + 2, p.at + 5)),
                                              int_of(SubSeq(p.file.bytes, p.at + 6, p.at + 9)),
                                              int_of(SubSeq(p.file.bytes, p.at + 10,
                                                            p.at + 13))>>)], f + 1)

\* for (auto elem : elements), then (*shape) = shp; return true
RECURSIVE read_elements(_, _)
read_elements(p, e) ==
    IF p.pc = "returned" THEN p
    ELSE IF e > Len(p.elements) THEN [p EXCEPT !.pc = "returned", !.ret = "true"]
    ELSE IF p.elements[e] = "vertex" THEN read_elements(read_vertices(p, 0), e + 1)
    ELSE read_elements(read_faces(p, 0), e + 1)

\* the files: a description gives the format, the properties of the vertex
\* element (kind and name), the numbers of vertices and faces and the number
\* each face starts with; the values are told by the description
PlyWord(n) == CASE n = 0 -> "0" [] n = 1 -> "1" [] n = 2 -> "2" [] n = 3 -> "3" [] OTHER -> "4"

\* the value of the k-th property of the vertex v (v counts from 0)
ValueAt(v, k) == (v + k) % 3

PropertyLists ==
    {<<"x", "y", "z">>, <<"x", "y", "z", "nx", "ny", "nz">>, <<"x", "y", "z", "u", "v">>,
     <<"x">>, <<"y", "z">>, <<"x", "y", "z", "w">>}

PlyDescriptions ==
    [format : {"ascii", "binary_little_endian"}, props : PropertyLists,
     kind : {"float"}, n_vertices : 0..MaxVertices, n_faces : 0..1, arity : {3}]
        \cup [format : {"ascii", "binary_little_endian"}, props : {<<"x", "y", "z">>},
              kind : {"float", "int"}, n_vertices : {1}, n_faces : {1}, arity : {3, 4}]

HeaderLines(d) ==
    <<<<"ply">>, <<"format", d.format, "1.0">>,
      <<"element", "vertex", PlyWord(d.n_vertices)>>>>
        \o [i \in 1..Len(d.props) |-> <<"property", d.kind, d.props[i]>>]
        \o <<<<"element", "face", PlyWord(d.n_faces)>>,
             <<"property", "list", "uchar", "int", "vertex_indices">>,
             <<"end_header">>>>

AsciiBody(d) ==
    [v \in 1..d.n_vertices |-> [k \in 1..Len(d.props) |-> PlyWord(ValueAt(v - 1, k))]]
        \o [f \in 1..d.n_faces |-> <<PlyWord(d.arity), "0", "1", "2">>]

RECURSIVE Flat(_)
Flat(ss) == IF ss = <<>> THEN <<>> ELSE ss[1] \o Flat(Tail(ss))

BinaryBody(d) ==
    Flat([v \in 1..d.n_vertices |->
             Flat([k \in 1..Len(d.props) |-> FloatBytes(ValueAt(v - 1, k))])])
        \o Flat([f \in 1..d.n_faces |->
                    <<d.arity>> \o IntBytes(0) \o IntBytes(1) \o IntBytes(2)])

\* the file of a description, in the encoding format
Encoded(d, format) ==
    LET e == [d EXCEPT !.format = format]
    IN  [exists |-> TRUE,
         lines |-> HeaderLines(e) \o (IF format = "ascii" THEN AsciiBody(e) ELSE <<>>),
         bytes |-> IF format = "ascii" THEN <<>> ELSE BinaryBody(e)]

\* a file that is not there, an empty file, and headers that stop early
BrokenFiles ==
    {[exists |-> FALSE, lines |-> <<>>, bytes |-> <<>>],
     [exists |-> TRUE, lines |-> <<>>, bytes |-> <<>>],
     [exists |-> TRUE, lines |-> <<<<"ply">>, <<"format", "ascii", "1.0">>>>, bytes |-> <<>>],
     [exists |-> TRUE, bytes |-> <<>>,
      lines |-> <<<<"ply">>, <<"element", "vertex", "1">>, <<"property", "float", "x">>>>]}

NoDescription == [format |-> "none", props |-> <<>>, kind |-> "none", n_vertices |-> 0,
                  n_faces |-> 0, arity |-> 0]

\* parse_ply is called: the locals as declared, plyFile.open, the first getline
Called(file, d) ==
    getline([file |-> file, described |-> d, good |-> file.exists, next |-> 1, at |-> 0,
             line |-> <<>>, n_vertices |-> 0, vertex_prop |-> <<>>, n_faces |-> 0,
             elements |-> <<>>, is_asc |-> FALSE, lap |-> 0, pc |-> "header",
             ret |-> "none",
             shape |-> [pos |-> <<>>, norm |-> <<>>, texcoord |-> <<>>, triangles |-> <<>>]])

\* one turn of while (true) in the header
ply_header ==
    /\ ply.pc = "header"
    /\ ply' = IF startswith(ply.line, "end_header") THEN [ply EXCEPT !.pc = "body"]
              ELSE IF startswith(ply.line, "format") /\ contains(ply.line, "ascii")
              THEN Turn(getline([ply EXCEPT !.is_asc = TRUE]))
              ELSE IF startswith(ply.line, "element")
              THEN IF ply.line[2] = "vertex"
                   THEN getline([ply EXCEPT !.elements = Append(@, "vertex"),
                                            !.n_vertices = atoi(ply.line[3]),
                                            !.pc = "vertex_property"])
                   ELSE IF ply.line[2] = "face"
                   THEN getline([ply EXCEPT !.elements = Append(@, "face"),
                                            !.n_faces = atoi(ply.line[3]),
                                            !.pc = "face_property"])
                   ELSE Failed(ply)
              ELSE Turn(getline(ply))
    /\ UNCHANGED <<phase, op, arg, budget, parserVars, historyVars, definedObjs,
                   atObjectBegin, madeBeforeWorld, opened, following, sceneWideVars, par,
                   declaredVars, lexerVars, includeVars>>

\* one turn of while (startswith(line, "property")) after element vertex
ply_vertex_property ==
    /\ ply.pc = "vertex_property"
    /\ ply' = IF ~startswith(ply.line, "property") THEN Turn([ply EXCEPT !.pc = "header"])
              ELSE IF ply.line[2] # "float" THEN Failed(ply)
              ELSE getline([ply EXCEPT !.vertex_prop = Append(@, ply.line[3])])
    /\ UNCHANGED <<phase, op, arg, budget, parserVars, historyVars, definedObjs,
                   atObjectBegin, madeBeforeWorld, opened, following, sceneWideVars, par,
                   declaredVars, lexerVars, includeVars>>

\* one turn of while (startswith(line, "property")) after element face
ply_face_property ==
    /\ ply.pc = "face_property"
    /\ ply' = IF ~startswith(ply.line, "property") THEN Turn([ply EXCEPT !.pc = "header"])
              ELSE IF ply.line[3] \notin {"uint8", "uchar"} THEN Failed(ply)
              ELSE IF ply.line[4] # "int" THEN Failed(ply)
              ELSE IF ply.line[5] # "vertex_indices" THEN Failed(ply)
              ELSE getline(ply)
    /\ UNCHANGED <<phase, op, arg, budget, parserVars, historyVars, definedObjs,
                   atObjectBegin, madeBeforeWorld, opened, following, sceneWideVars, par,
                   declaredVars, lexerVars, includeVars>>

\* after the header: the values, element by element, and the return
ply_values ==
    /\ ply.pc = "body"
    /\ ply' = read_elements(ply, 1)
    /\ UNCHANGED <<phase, op, arg, budget, parserVars, historyVars, definedObjs,
                   atObjectBegin, madeBeforeWorld, opened, following, sceneWideVars, par,
                   declaredVars, lexerVars, includeVars>>

NextPly ==
    \/ ply_header
    \/ ply_vertex_property
    \/ ply_face_property
    \/ ply_values

InitPly ==
    /\ ParserMembers
    /\ gState = InitGState
    /\ budget = 0
    /\ source = <<>>
    /\ lexer = PBRTLexer(source)
    /\ lexemes = <<>>
    /\ files = NoFiles
    /\ lexers = <<>>
    /\ stream = <<>>
    /\ ply \in {Called(Encoded(d, d.format), d) : d \in PlyDescriptions}
                  \cup {Called(file, NoDescription) : file \in BrokenFiles}

SpecPly == InitPly /\ [][NextPly]_vars

\* every call goes on until it returns, if it can
FairPly == InitPly /\ [][NextPly]_vars /\ WF_vars(NextPly)

\* ---- C34 ---------------------------------------------------------------
\* the call at the end of the header of the same file in the other encoding
OtherEncoding(p) ==
    [p EXCEPT !.is_asc = ~p.is_asc,
              !.at = 0,
              !.file = Encoded(p.described,
                               IF p.is_asc THEN "binary_little_endian" ELSE "ascii")]

\* C34: what parse_ply returns and the positions, normals, texcoords and
\* triangles of the shape are those the file of the same header fields and
\* values gives in the other encoding; with nx, ny, nz (u, v) declared the shape
\* of a file that loads has one normal (one texcoord) for each vertex.
C34_EncodingIndependent ==
    [][(ply.pc = "body" /\ ply'.pc = "returned") =>
           /\ ply'.ret = read_elements(OtherEncoding(ply), 1).ret
           /\ ply'.ret = "true" =>
                 /\ ply'.shape = read_elements(OtherEncoding(ply), 1).shape
                 /\ contains(ply.vertex_prop, "nx") =>
                       Len(ply'.shape.norm) = ply.n_vertices
                 /\ contains(ply.vertex_prop, "u") =>
                       Len(ply'.shape.texcoord) = ply.n_vertices]_vars

\* ---- C35 ---------------------------------------------------------------
\* C35: a file whose vertex element does not declare all of x, y and z, or
\* declares a property that is not float, or a name outside x, y, z, nx, ny, nz,
\* u, v, does not load; every vertex of a file that loads has the x, y and z
\* written in the file.
C35_VertexFields ==
    (ply.pc = "returned" /\ ply.described # NoDescription) =>
        LET d == ply.described
            where(name) == CHOOSE k \in 1..Len(d.props) : d.props[k] = name
        IN  /\ (\/ \E name \in {"x", "y", "z"} : ~contains(d.props, name)
                \/ d.kind # "float"
                \/ \E k \in 1..Len(d.props) :
                       d.props[k] \notin {"x", "y", "z", "nx", "ny", "nz", "u", "v"})
                   => ply.ret = "false"
            /\ ply.ret = "true" =>
                  /\ Len(ply.shape.pos) = d.n_vertices
                  /\ \A v \in 1..d.n_vertices :
                        ply.shape.pos[v] = <<ValueAt(v - 1, where("x")),
                                             ValueAt(v - 1, where("y")),
                                             ValueAt(v - 1, where("z"))>>

\* ---- C39 ---------------------------------------------------------------
\* C39: every call of parse_ply returns, also for a file that is missing, that
\* is empty or whose header has no end_header line.
C39_LoaderReturns == <>(ply.pc = "returned")

\* ---- Include inside an included file ------------------------------------
\* m includes d/f and g; d/f includes g, or ends with the word Include; the
\* g next to m holds 1, the g in d holds 2
NestedMainItems == {"a", "Include d/f", "Include g", "\"g\""}
NestedItems == {"e", "Include g", "Include"}

InitNested ==
    /\ ParserAttributes
    /\ gState = InitGState
    /\ budget = 0
    /\ source = <<>>
    /\ lexer = PBRTLexer(source)
    /\ lexemes = <<>>
    /\ files \in [main : LinesOver(NestedMainItems, MaxFileLines),
                  df : LinesOver(NestedItems, MaxFileLines) \ {<<>>},
                  f : {<<>>}, g : {<<"1">>}, dg : {<<"2">>}]
    /\ lexers = <<LexerOf(<<"m">>)>>
    /\ stream = <<>>

SpecNested == InitNested /\ [][NextInclude]_vars

\* ---- C36 ---------------------------------------------------------------
\* the file whose text holds a lexeme of the nested files: a and the names
\* written without Include are in m only, e in d/f only, 1 and 2 in the two g
HolderOf(lexeme) ==
    CASE lexeme.type = "IDENTIFIER" /\ lexeme.value = <<"a">> -> <<".", "/", "m">>
      [] lexeme.type = "IDENTIFIER" /\ lexeme.value = <<"e">> -> <<".", "/", "d", "/", "f">>
      [] lexeme.type = "NUMBER" /\ lexeme.value = <<"1">> -> <<".", "/", "g">>
      [] lexeme.type = "NUMBER" /\ lexeme.value = <<"2">> -> <<".", "/", "d", "/", "g">>
      [] OTHER -> <<>>

\* the file an error at the current lexeme is reported in is the file that
\* holds the lexeme
ErrorPositionInHolder ==
    (lexers # <<>> /\ HolderOf(current_token(lexers)) # <<>>) =>
        current_file(lexers) = HolderOf(current_token(lexers))

\* execute_Include has read a name and made a lexer for it
OpenedByStep ==
    /\ op' = "Include"
    /\ Len(stream') > Len(stream)
    /\ stream'[Len(stream) + 1].type = "STRING"
    /\ stream'[Len(stream) + 1].value # <<>>

\* the name execute_Include made the lexer with, as the top of the stack shows
\* it when the first lexeme of the file has been read
NameOpened == lexers'[1].path \o <<"/">> \o lexers'[1].filename

Radiance(ms, ss, i) == ms[ss[i].mat].ke

\* C37 as stated: the emission of an area light reaches only the shapes
\* declared while the area light is active: a Shape directive leaves the
\* shapes that had no radiance without radiance, and a shape declared while
\* no area light is active has a material without radiance.
C37_EmissionOnlyInAreaLight ==
    [][op' = "Shape" =>
           /\ \A i \in 1..Len(shps) :
                  Radiance(mats, shps, i) = 0 => Radiance(mats', shps', i) = 0
           /\ (Len(shps') > Len(shps) /\ ~gState.alInfo.active) =>
                  Radiance(mats', shps', Len(shps')) = 0]_vars

\* ---- parse() over the text of files -------------------------------------
\* The two loops of parse() on the lexers of files: every turn looks at the
\* current lexeme. Of the directives only WorldBegin, WorldEnd and Include are
\* written in the files; X stands for a directive without a branch.
WorldBeginWord == <<"W", "o", "r", "l", "d", "B", "e", "g", "i", "n">>
WorldEndWord == <<"W", "o", "r", "l", "d", "E", "n", "d">>

ParsedMainItems == {"WorldBegin", "WorldEnd", "Include f", "X 1"}
ParsedItems == {"X 1", "\"s", "# c"}

\* while (current_token().get_type() != IDENTIFIER) advance()
RECURSIVE skip_to_identifier(_)
skip_to_identifier(r) ==
    IF r.exc # "none" THEN r
    ELSE IF current_token(r.lexers).type = "IDENTIFIER" THEN r
    ELSE Evaluated(parser_advance(r.lexers), skip_to_identifier)

\* PBRTParser::ignore_current_directive on the lexers ls
ignored_lexemes(ls) == Evaluated(parser_advance(ls), skip_to_identifier)

AtLexeme == op # "start" /\ Running /\ lexers # <<>>

\* the lexers and the phase after the advances r of a handler
Advanced(r, next) ==
    /\ lexers' = r.lexers
    /\ IF r.exc = "none"
       THEN /\ stream' = Append(stream, current_token(r.lexers))
            /\ phase' = next
       ELSE /\ phase' = Thrown(r.exc)
            /\ UNCHANGED stream
    /\ UNCHANGED <<arg, budget, definedObjs, atObjectBegin, madeBeforeWorld, opened,
                   following, ply, sceneWideVars, par, declaredVars, lexerVars, files>>

\* both loops: throw_syntax_error("Identifier expected ...")
throw_identifier_expected ==
    /\ AtLexeme
    /\ current_token(lexers).type # "IDENTIFIER"
    /\ op' = "malformed"
    /\ phase' = "syntax_error"
    /\ UNCHANGED <<arg, budget, definedObjs, atObjectBegin, madeBeforeWorld, opened,
                   following, ply, sceneWideVars, par, declaredVars, lexerVars, includeVars,
                   parserVars, historyVars>>

\* parse_preworld_directives returns at WorldBegin; parse_world_directives
\* resets the CTM and advances
leave_preworld ==
    /\ AtLexeme
    /\ phase = "preworld"
    /\ current_token(lexers).type = "IDENTIFIER"
    /\ current_token(lexers).value = WorldBeginWord
    /\ op' = "WorldBegin"
    /\ Advanced(parser_advance(lexers), "world")
    /\ gState' = [gState EXCEPT !.CTM = WorldBeginCTM(gState.CTM)]
    /\ ctmAtWorldBegin' = gState.CTM
    /\ UNCHANGED <<stateStack, CTMStack, inObjectDefinition, objName, shapesInObject, scn,
                   mats, shps, sgs, txts, openBlocks, worldXf, ub>>

\* the loop of parse_world_directives stops at WorldEnd and parse() returns scn
leave_world ==
    /\ AtLexeme
    /\ phase = "world"
    /\ current_token(lexers).type = "IDENTIFIER"
    /\ current_token(lexers).value = WorldEndWord
    /\ op' = "WorldEnd"
    /\ phase' = "done"
    /\ UNCHANGED <<arg, budget, definedObjs, atObjectBegin, madeBeforeWorld, opened,
                   following, ply, sceneWideVars, par, declaredVars, lexerVars, includeVars,
                   parserVars, historyVars>>

\* the else branch of both loops
ignore_directive ==
    /\ AtLexeme
    /\ current_token(lexers).type = "IDENTIFIER"
    /\ current_token(lexers).value
           \notin {IncludeWord, IF phase = "preworld" THEN WorldBeginWord ELSE WorldEndWord}
    /\ op' = "ignored"
    /\ Advanced(ignored_lexemes(lexers), phase)
    /\ UNCHANGED <<parserVars, historyVars>>

NextParse ==
    \/ ParseStart
    \/ throw_identifier_expected
    \/ leave_preworld
    \/ leave_world
    \/ ignore_directive
    \/ execute_Include

InitParse ==
    /\ ParserAttributes
    /\ gState = InitGState
    /\ budget = 0
    /\ source = <<>>
    /\ lexer = PBRTLexer(source)
    /\ lexemes = <<>>
    /\ files \in [main : LinesOver(ParsedMainItems, MaxFileLines),
                  f : LinesOver(ParsedItems, MaxFileLines),
                  g : {<<>>}, df : {<<>>}, dg : {<<>>}]
    /\ lexers = <<LexerOf(<<"m">>)>>
    /\ stream = <<>>

SpecParse == InitParse /\ [][NextParse]_vars

\* parse() is a sequential call: a turn of its loops that can be made is made
FairParse == InitParse /\ [][NextParse]_vars /\ WF_vars(NextParse)

====
